---------------------------- MODULE Spec2Model ----------------------------
(***************************************************************************)
(* A model of autodp's transformers (transformer_zoo.py), the mechanisms   *)
(* they consume (mechanism_zoo.py) and the converters they call            *)
(* (converter.py).                                                         *)
(*                                                                         *)
(* Python objects live in heaps: `heap` holds the Mechanism objects,       *)
(* `dicts` the params dictionaries (a mechanism holds the index of its     *)
(* dictionary, so that two mechanisms can share one), `mlists`/`clists`    *)
(* the list objects handed to compose.  A privacy curve is a closure: a    *)
(* record naming the code that built it and what it captured; Call         *)
(* evaluates a closure at a point against the current heaps, so a closure  *)
(* that reads mech.RenyiDP or newmech.phi_p_upper when it is called reads  *)
(* what the object holds at that time.                                     *)
(*                                                                         *)
(* Numbers are exact: a value is a rational, +infinity, an exception that  *)
(* an evaluation raised, or a term f(args) for a quantity the code obtains *)
(* from a transcendental formula (log, exp, a catalog formula).            *)
(***************************************************************************)
EXTENDS Integers, Sequences, FiniteSets, TLC

VARIABLES heap, dicts, mlists, clists, last

vars == <<heap, dicts, mlists, clists, last>>

\* Bounds of the model: the objects on the heap, the length of a list handed
\* to compose, and the objects on the heap where converters are queried.
MaxMech == 3
MaxList == 2
MaxConvMech == 2

-----------------------------------------------------------------------------
(* Values *)

RECURSIVE GCD(_, _)
GCD(a, b) == IF b = 0 THEN a ELSE GCD(b, a % b)

Abs(n) == IF n < 0 THEN -n ELSE n

\* The rational n/d (d > 0), in lowest terms.
Rat(n, d) ==
    LET g == GCD(Abs(n), d)
    IN  [a |-> <<>>, n |-> n \div g, d |-> d \div g, t |-> "rat", f |-> ""]

Zero == Rat(0, 1)
One == Rat(1, 1)
Inf == [a |-> <<>>, n |-> 0, d |-> 1, t |-> "inf", f |-> ""]
\* A quantity given by a formula that is not evaluated: f applied to args.
Sym(f, args) == [a |-> args, n |-> 0, d |-> 1, t |-> "sym", f |-> f]
\* A raised exception, by its class.
Err(f) == [a |-> <<>>, n |-> 0, d |-> 1, t |-> "err", f |-> f]
NaN == Sym("nan", <<>>)

IsRat(v) == v.t = "rat"
IsInf(v) == v.t = "inf"
IsErr(v) == v.t = "err"

\* a < b and a <= b on rationals and +infinity (false on a term).
Lt(a, b) ==
    \/ IsRat(a) /\ IsRat(b) /\ a.n * b.d < b.n * a.d
    \/ IsRat(a) /\ IsInf(b)
Le(a, b) == a = b \/ Lt(a, b)

\* Python's a + b.
Add(a, b) ==
    IF IsErr(a) THEN a
    ELSE IF IsErr(b) THEN b
    ELSE IF IsRat(a) /\ IsRat(b) THEN Rat(a.n * b.d + b.n * a.d, a.d * b.d)
    ELSE IF a = Zero THEN b
    ELSE IF b = Zero THEN a
    ELSE IF (IsInf(a) \/ IsRat(a)) /\ (IsInf(b) \/ IsRat(b)) THEN Inf
    ELSE Sym("add", <<a, b>>)

\* Python's a * b.
Mul(a, b) ==
    IF IsErr(a) THEN a
    ELSE IF IsErr(b) THEN b
    ELSE IF IsRat(a) /\ IsRat(b) THEN Rat(a.n * b.n, a.d * b.d)
    ELSE IF a = One THEN b
    ELSE IF b = One THEN a
    ELSE IF IsInf(a) /\ (IsInf(b) \/ IsRat(b))
         THEN (IF b = Zero THEN NaN ELSE IF Lt(b, Zero) THEN Sym("neg", <<Inf>>) ELSE Inf)
    ELSE IF IsInf(b) /\ IsRat(a)
         THEN (IF a = Zero THEN NaN ELSE IF Lt(a, Zero) THEN Sym("neg", <<Inf>>) ELSE Inf)
    ELSE Sym("mul", <<a, b>>)

\* Python's a / b.
Div(a, b) ==
    IF IsErr(a) THEN a
    ELSE IF IsErr(b) THEN b
    ELSE IF b = Zero THEN Err("ZeroDivisionError")
    ELSE IF IsRat(a) /\ IsRat(b)
         THEN (IF b.n > 0 THEN Rat(a.n * b.d, a.d * b.n) ELSE Rat(-(a.n * b.d), a.d * (-b.n)))
    ELSE IF IsInf(a) /\ IsRat(b) /\ Lt(Zero, b) THEN Inf
    ELSE Sym("div", <<a, b>>)

\* math.sqrt(r): exact on the square of a rational, a term otherwise.
Sqrt(r) ==
    IF IsErr(r) THEN r
    ELSE IF IsRat(r) /\ r.n >= 0
            /\ (\E p \in 0..r.n : p * p = r.n) /\ (\E q \in 1..r.d : q * q = r.d)
         THEN Rat(CHOOSE p \in 0..r.n : p * p = r.n, CHOOSE q \in 1..r.d : q * q = r.d)
    ELSE Sym("sqrt", <<r>>)

\* s ** (-2): the square root of r squared is r.
PowMinus2(s) ==
    IF IsErr(s) THEN s
    ELSE IF s = Zero THEN Err("ZeroDivisionError")
    ELSE IF IsRat(s) THEN Rat(s.d * s.d, s.n * s.n)
    ELSE IF s.t = "sym" /\ s.f = "sqrt" THEN Div(One, s.a[1])
    ELSE Sym("pow", <<s, Rat(-2, 1)>>)

-----------------------------------------------------------------------------
(* Inputs *)

\* Noise scales, pure-DP epsilons, Laplace scales, sampling probabilities.
Sigmas == {Rat(1, 1), Rat(2, 1)}
Epss == {Rat(1, 1), Rat(2, 1)}
Probs == {Zero, Rat(1, 2), One}
\* Multiplicities of a mechanism in a composition ("number of times they appear").
Coeffs == {1, 10}
\* Renyi orders, query deltas, and the argument t of a phi-function.
Orders == {Rat(3, 2), Rat(2, 1), Rat(5, 1), Inf}
Deltas == {Zero, Rat(1, 4), Rat(1, 2), One}
Ts == {One, Rat(2, 1)}
\* What scipy's minimize_scalar reports for one search: whether it succeeded and
\* the point it stopped at: x when the search is over Renyi orders, d when it
\* is over deltas, y when it is over false negative rates.  The optimizer is
\* outside the repository: every outcome is possible.
Oracles == [success : BOOLEAN, x : {Rat(3, 2), Rat(2, 1)}, d : {Rat(1, 4)}, y : {Rat(1, 4)}]

-----------------------------------------------------------------------------
(* Closures *)

\* A function object: the code that built it (k) and what it captured: a
\* mechanism (m), the two lists of a compose call (ml, cl), an attribute name
\* (at), numbers (v) and other function objects (a).
Fn(k, m, ml, cl, at, v, a) ==
    [a |-> a, v |-> v, k |-> k, m |-> m, ml |-> ml, cl |-> cl, at |-> at]
\* An attribute the object does not have.
NoFn == Fn("absent", 0, 0, 0, "", <<>>, <<>>)
FnV(k, v) == Fn(k, 0, 0, 0, "", v, <<>>)

Min2(i, j) == IF i <= j THEN i ELSE j

\* puredp_to_rdp(eps)(alpha)
PureRdp(eps, alpha) ==
    IF Lt(alpha, Zero) THEN Err("AssertionError")
    ELSE IF alpha = One
         THEN (IF eps = Zero THEN Err("ZeroDivisionError") ELSE Sym("eps_cosh_sinh", <<eps>>))
    ELSE IF IsInf(alpha) THEN eps
    ELSE IF Lt(One, alpha) THEN Sym("puredp_rdp", <<eps, alpha>>)
    ELSE IF eps = Zero THEN Err("ZeroDivisionError")
    ELSE Sym("min", <<Div(Mul(Mul(alpha, eps), eps), Rat(2, 1)), Sym("eps_cosh_sinh", <<eps>>)>>)

\* rdp_bank.RDP_gaussian({'sigma': sigma}, alpha) = 0.5 / sigma**2 * alpha
RDP_gaussian(sigma, alpha) == Mul(Mul(Rat(1, 2), PowMinus2(sigma)), alpha)

\* The objective of rdp_to_approxdp's order search at order x, given rdp(x).
ApproxdpFun(rdpx, x, delta, bbghs) ==
    IF Le(x, One) THEN Inf
    ELSE IF IsErr(rdpx) THEN rdpx
    ELSE IF bbghs THEN Sym("bbghs", <<rdpx, x, delta>>)
    ELSE Sym("naive", <<rdpx, x, delta>>)

\* rdp_to_approxdp(rdp)(delta) were delta = 0 searched like any other delta.
RdpToApproxdp_search(rdpInf, rdpx, delta, bbghs, o) ==
    LET res == ApproxdpFun(rdpx, o.x, delta, bbghs)
    IN  IF IsErr(res) THEN res
        ELSE IF o.success THEN res
        ELSE Inf

\* rdp_to_approxdp(rdp)(delta), given rdp(inf) and rdp at the optimizer's point:
\* a delta outside [0,1] is reported on stdout and the evaluation goes on.
RdpToApproxdp(rdpInf, rdpx, delta, bbghs, o) ==
    IF delta = Zero THEN rdpInf
    ELSE LET res == ApproxdpFun(rdpx, o.x, delta, bbghs)
         IN  IF IsErr(res) THEN res
             ELSE IF o.success THEN res
             ELSE Inf

\* fun(x) of rdp_to_delta's get_eps, given rdp(x).
DeltaFun(rdpx, x, delta, naive) ==
    IF Le(x, One) THEN Inf
    ELSE IF IsErr(rdpx) THEN rdpx
    ELSE IF naive THEN Sym("naive", <<rdpx, x, delta>>)
    ELSE Sym("min_optimal_bbghs", <<rdpx, x, delta>>)

\* get_eps(delta) of rdp_to_delta, given rdp(inf) and rdp at the order the
\* search stops at.
GetEps(rdpInf, rdpx, delta, naive, o) ==
    IF delta = Zero THEN rdpInf
    ELSE LET res == DeltaFun(rdpx, o.x, delta, naive)
         IN  IF IsErr(res) THEN res
             ELSE IF o.success THEN res
             ELSE Inf

\* err(delta) of rdp_to_delta: abs(eps - current_eps).
DeltaErr(eps, current_eps) ==
    IF IsErr(current_eps) THEN current_eps
    ELSE IF IsInf(current_eps) THEN Inf
    ELSE IF IsRat(current_eps) /\ IsRat(eps)
         THEN (IF Lt(eps, current_eps) THEN Add(current_eps, Mul(Rat(-1, 1), eps))
               ELSE Add(eps, Mul(Rat(-1, 1), current_eps)))
    ELSE Sym("abs_diff", <<eps, current_eps>>)

\* approx_delta(eps) were the outcome of the outer search not looked at.
RdpToDelta_nofallback(errv, r) ==
    IF IsErr(errv) THEN errv
    ELSE r.x

\* rdp_to_delta(rdp)(eps): errv is err at the deltas the bounded search over
\* [0, 0.1] evaluates, r what that search reports.
RdpToDelta(errv, r) ==
    IF IsErr(errv) THEN errv
    ELSE IF r.success THEN r.x
    ELSE One

\* The argument new_approxDP of amplify calls mechanism.approxDP with.
amplify_base_delta(prob, delta) == Div(delta, prob)

\* new_approxDP of amplify for prob # 0, given mechanism.approxDP(delta/prob).
AmplifiedEps(prob, inner) ==
    IF IsErr(inner) THEN inner
    ELSE IF inner = Zero THEN Zero
    ELSE IF IsInf(inner) THEN Inf
    ELSE Sym("log1p_prob_expm1", <<prob, inner>>)

\* assert (0 <= x <= 1)
InUnit(x) == IsRat(x) /\ Le(Zero, x) /\ Le(x, One)

\* puredp_to_fdp(eps)(fpr)
PuredpToFdp(eps, fpr) == Sym("puredp_to_fdp", <<eps, fpr>>)

\* approxdp_to_fdp(eps, delta)(fpr)
ApproxdpToFdp(eps, delta, fpr) ==
    IF IsErr(eps) THEN eps
    ELSE IF ~(Le(Zero, eps) /\ InUnit(delta)) THEN Err("AssertionError")
    ELSE IF ~InUnit(fpr) THEN Err("AssertionError")
    ELSE IF fpr = Zero THEN Add(One, Mul(Rat(-1, 1), delta))
    ELSE IF IsInf(eps) THEN Zero
    ELSE Sym("approxdp_to_fdp", <<eps, delta, fpr>>)

\* approxdp_func_to_fdp(func)(fpr), given func at the delta the search stops at.
ApproxdpFuncToFdp(epsAtDelta, delta, fpr, o) ==
    IF ~InUnit(fpr) THEN Err("AssertionError")
    ELSE IF fpr = One THEN Zero
    ELSE LET fnr == ApproxdpToFdp(epsAtDelta, delta, fpr)
         IN  IF IsErr(fnr) THEN fnr
             ELSE IF o.success THEN fnr
             ELSE Zero

\* single_rdp_to_fdp(alpha, rho)(x) were the search run at the ends too.
SingleRdpToFdp_search(alpha, rho, x, o) ==
    IF IsErr(rho) THEN rho
    ELSE IF ~Le(Rat(1, 2), alpha) THEN Err("AssertionError")
    ELSE IF ~InUnit(x) THEN Err("AssertionError")
    ELSE IF o.success THEN o.y
    ELSE Zero

\* single_rdp_to_fdp(alpha, rho)(x): the root search over [0, 1-x] stops at o.y.
SingleRdpToFdp(alpha, rho, x, o) ==
    IF IsErr(rho) THEN rho
    ELSE IF ~Le(Rat(1, 2), alpha) THEN Err("AssertionError")
    ELSE IF ~InUnit(x) THEN Err("AssertionError")
    ELSE IF x = Zero THEN One
    ELSE IF x = One THEN Zero
    ELSE IF o.success THEN o.y
    ELSE Zero

\* rdp_to_fdp(rdp)(x), given rdp at the order the search stops at.
RdpToFdp(rhoAtAlpha, x, o) ==
    IF ~InUnit(x) THEN Err("AssertionError")
    ELSE IF x = Zero THEN One
    ELSE IF x = One THEN Zero
    ELSE IF IsErr(rhoAtAlpha) THEN rhoAtAlpha
    ELSE IF o.success THEN Sym("rdp_to_fdp", <<rhoAtAlpha, o.x, x>>)
    ELSE Zero

\* Python's -a.
Neg(a) == Mul(Rat(-1, 1), a)

\* A function on [0,1] that is linear between 0, 1/2 and 1, given by its
\* values there, evaluated at one of these points.
Pwl(v, y) ==
    IF y = Zero THEN v[1]
    ELSE IF y = Rat(1, 2) THEN v[2]
    ELSE IF y = One THEN v[3]
    ELSE Sym("pwl", <<v, y>>)

\* Python's None.
None == [a |-> <<>>, n |-> 0, d |-> 1, t |-> "none", f |-> ""]

\* inv_f(y) with the bounds test left out.
NumericalInverse_unchecked(fx, bounds, y, o) ==
    IF IsErr(fx) THEN fx
    ELSE IF o.success THEN o.x
    ELSE None

\* numerical_inverse(f, bounds, tol)(y): fx is what f gives at the points
\* minimize_scalar evaluates it at; an exception of f passes through the search.
NumericalInverse(fx, bounds, y, o) ==
    IF bounds # <<>> /\ (Lt(bounds[2], y) \/ Lt(y, bounds[1])) THEN None
    ELSE IF IsErr(fx) THEN fx
    ELSE IF o.success THEN o.x
    ELSE None

\* conjugate(f, tol)(x): fun is results.fun, the value of -y*x + f(y) where
\* the bounded search over (0, 1) stopped.
Conjugate(fun, tol, success) ==
    IF IsErr(fun) THEN fun
    ELSE IF success THEN Neg(Add(fun, tol))
    ELSE None

\* -np.inf, a Python list [a, b], and logx <= 0.
NegInf == Sym("neg", <<Inf>>)
List2(a, b) == Sym("list", <<a, b>>)
LeZero(logx) == logx = NegInf \/ Le(logx, Zero)

\* log_one_minus_fdp(logx) of single_rdp_to_fdp_and_fdp_grad_log(alpha, rho):
\* the root search over [logx, 0] stops at -o.y.
SingleLogOneMinusFdp(alpha, rho, logx, o) ==
    IF IsErr(rho) THEN rho
    ELSE IF ~Le(Rat(1, 2), alpha) THEN Err("AssertionError")
    ELSE IF ~LeZero(logx) THEN Err("AssertionError")
    ELSE IF logx = Zero THEN Zero
    ELSE IF logx = NegInf THEN NegInf
    ELSE IF o.success THEN Neg(o.y)
    ELSE Zero

\* log_one_minus_fdp(logx) of rdp_to_fdp_and_fdp_grad_log(rdp), given rdp at
\* the order the search stops at: when the search fails the function calls
\* itself with that order in the place of logx.
RECURSIVE LogOneMinusFdp(_, _, _)
LogOneMinusFdp(rdpAt, logx, o) ==
    IF ~LeZero(logx) THEN Err("AssertionError")
    ELSE IF logx = NegInf THEN List2(NegInf, Inf)
    ELSE IF logx = Zero THEN List2(Zero, Inf)
    ELSE IF IsErr(rdpAt) THEN rdpAt
    ELSE IF o.success
         THEN List2(Sym("log_one_minus_fdp_alpha", <<rdpAt, o.x, logx>>), o.x)
    ELSE LET inner == LogOneMinusFdp(rdpAt, o.x, o)
         IN  IF IsErr(inner) THEN inner ELSE List2(inner, o.x)

\* log_one_minus_fdp_only(logx): res[0].
LogOneMinusFdpOnly(rdpAt, logx, o) ==
    LET res == LogOneMinusFdp(rdpAt, logx, o)
    IN  IF IsErr(res) THEN res ELSE res.a[1]

\* abs(v) of a number.
AbsV(v) == IF Lt(v, Zero) THEN Neg(v) ELSE v

MinV(a, b) == IF Lt(a, b) THEN a ELSE b
MaxOf(a, b) == IF Lt(b, a) THEN a ELSE b

\* tol of log_neg_partial_fdp; the residuals are held in units of 1e-5.
GradTol == Rat(1, 1)

\* log_neg_partial_fdp(logx) of single_rdp_to_fdp_and_fdp_grad_log(alpha, rho).
\* success is what the root search of log_one_minus_fdp reports (u is 0.0
\* when it fails), and e = <<diff1, diff2, grad1, grad2>> are the values of
\* the two residuals and the two gradients at (logx, u).
LogNegPartialFdp(alpha, logx, success, e) ==
    IF ~Le(Rat(1, 2), alpha) THEN Err("AssertionError")
    ELSE IF ~LeZero(logx) THEN Err("AssertionError")
    ELSE IF logx = NegInf THEN List2(Inf, Inf)
    ELSE IF logx = Zero THEN List2(Zero, Zero)
    ELSE IF alpha = One /\ ~success THEN Err("AssertionError")
    ELSE LET grad_l1 == IF Le(AbsV(e[1]), GradTol) THEN e[3] ELSE Inf
             grad_h1 == IF Le(AbsV(e[1]), GradTol) THEN e[3] ELSE Zero
         IN  IF Le(AbsV(e[2]), GradTol)
             THEN List2(MinV(e[4], grad_l1), MaxOf(e[4], grad_h1))
             ELSE List2(grad_l1, grad_h1)

\* The thresholds of find_logx: logx is held in units of 1e-10 and the
\* residual in units of 1e-4, so both thresholds are one unit.
XTol == Rat(1, 1)
ResidualTol == Rat(1, 1)

\* find_logx(delta) of fdp_fdp_grad_to_approxdp, given the lower end bound1 of
\* the search interval and what the bounded search over [bound1, 0] reports.
FindLogx(bound1, r) ==
    IF IsErr(bound1) THEN bound1
    ELSE IF r.success
         THEN (IF Lt(ResidualTol, AbsV(r.fun)) /\ Lt(XTol, AbsV(r.x))
               THEN Err("RuntimeError")
               ELSE r.x)
    ELSE Err("RuntimeError")

\* Length of the CDF arrays, even so that with mesh_size = ln 2 the mesh
\* hits whole powers of 2.
H == 8
\* lst[idx] of a Python sequence of length H: a negative index counts from
\* the end.
At(lst, idx) ==
    IF idx >= H \/ idx < -H THEN Err("IndexError")
    ELSE lst[(IF idx < 0 THEN idx + H ELSE idx) + 1]
\* eps_list[k] = -l + mesh_size*k in units of mesh_size (l = H*mesh_size/2),
\* and np.exp of it for mesh_size = ln 2.
EpsList(k) == Rat(2 * k - H, 2)
ExpEps(k) == IF 2 * k >= H THEN Rat(2 ^ (k - H \div 2), 1) ELSE Rat(1, 2 ^ (H \div 2 - k))
\* cdf_p_list[mid] + np.exp(eps_list[mid]) * cdf_q_list[H-mid-4]
FftResult(cdf_p, cdf_q, mid) ==
    Add(At(cdf_p, mid), Mul(ExpEps(mid), At(cdf_q, H - mid - 4)))

\* The binary search of cdf_to_approxdp_fft's approxdp(delta) from (i, j) on.
RECURSIVE FftSearch(_, _, _, _, _)
FftSearch(cdf_p, cdf_q, delta, i, j) ==
    IF i < j
    THEN LET mid == (i + j) \div 2
             result == FftResult(cdf_p, cdf_q, mid)
             miss == Add(One, Neg(result))
         IN  IF IsErr(result) THEN result
             ELSE IF Lt(AbsV(miss), Mul(Rat(1, 10), delta)) THEN EpsList(mid)
             ELSE IF Lt(delta, miss) THEN FftSearch(cdf_p, cdf_q, delta, mid + 1, j)
             ELSE FftSearch(cdf_p, cdf_q, delta, i, mid - 1)
    ELSE IF i < H - 1 /\ Lt(Zero, EpsList(j)) THEN EpsList(j)
    ELSE Err("ValueError")

\* The indices the binary search of approxdp(delta) reads its lists at from
\* (i, j) on: mid and H-mid-4 in each round, and j at the final return.
RECURSIVE FftReads(_, _, _, _, _)
FftReads(cdf_p, cdf_q, delta, i, j) ==
    IF i < j
    THEN LET mid == (i + j) \div 2
             result == FftResult(cdf_p, cdf_q, mid)
             miss == Add(One, Neg(result))
         IN  {mid, H - mid - 4} \cup
             (IF IsErr(result) \/ Lt(AbsV(miss), Mul(Rat(1, 10), delta)) THEN {}
              ELSE IF Lt(delta, miss) THEN FftReads(cdf_p, cdf_q, delta, mid + 1, j)
              ELSE FftReads(cdf_p, cdf_q, delta, i, mid - 1))
    ELSE IF i < H - 1 THEN {j}
    ELSE {}

\* cdf_to_approxdp_fft(cdf_p, cdf_q, l)(delta)
CdfToApproxdpFft(cdf_p, cdf_q, delta) ==
    FftSearch(cdf_p, cdf_q, delta, (H - 1) \div 2 - 1, H - 1)

\* The window half-width l in units of mesh_size = 2*l/H.
WindowL == Rat(H, 2)
\* The indices np.where(eps_list > eps)[0] holds.
Above(eps) == {k \in 0..(H - 1) : Lt(eps, EpsList(k))}

\* cdf_to_approxdelta_fft(cdf_p, cdf_q, l)(eps); is_np says eps is a numpy
\* scalar, which a list can be compared with, and not a plain Python number.
CdfToApproxdeltaFft(cdf_p, cdf_q, eps, is_np) ==
    IF Lt(WindowL, eps) THEN Err("ValueError")
    ELSE IF ~is_np THEN Err("TypeError")
    ELSE IF Above(eps) = {} THEN Err("IndexError")
    ELSE LET idx == CHOOSE k \in Above(eps) : \A k2 \in Above(eps) : k <= k2
         IN  Add(Add(One, Neg(At(cdf_p, idx))),
                 Neg(Mul(ExpEps(idx), At(cdf_q, H - idx - 1))))

RECURSIVE Call(_, _, _)
RECURSIVE SumAttr(_, _, _, _, _, _)

RECURSIVE SumAttr_unweighted(_, _, _, _, _, _)
\* sum([mech.<at>(x) for (mech, c) in zip(ml, cl)]): the sum were the
\* coefficients left out.
SumAttr_unweighted(at, ml, cl, x, o, i) ==
    IF i = 0 THEN Zero
    ELSE Add(SumAttr_unweighted(at, ml, cl, x, o, i - 1), Call(heap[ml[i]][at], x, o))

\* sum([c * mech.<at>(x) for (mech, c) in zip(ml, cl)]), the first i pairs.
SumAttr(at, ml, cl, x, o, i) ==
    IF i = 0 THEN Zero
    ELSE Add(SumAttr(at, ml, cl, x, o, i - 1),
             Mul(Rat(cl[i], 1), Call(heap[ml[i]][at], x, o)))

\* The zip of the two list objects, as they are now.
ZipSum(at, mlid, clid, x, o) ==
    SumAttr(at, mlists[mlid], clists[clid], x, o,
            Min2(Len(mlists[mlid]), Len(clists[clid])))

\* Calling the function object fn at x.
Call(fn, x, o) ==
    CASE fn.k = "absent" -> Err("AttributeError")
      [] fn.k = "const_inf" -> Inf
      [] fn.k = "const_zero" -> Zero
      [] fn.k = "RDP_gaussian" -> RDP_gaussian(fn.v[1], x)
      [] fn.k = "RDP_laplace" -> Sym("RDP_laplace", <<fn.v[1], x>>)
      [] fn.k = "puredp_to_rdp" -> PureRdp(fn.v[1], x)
      [] fn.k = "puredp_to_approxdp" -> Sym("puredp_to_approxdp", <<fn.v[1], x>>)
      [] fn.k = "puredp_to_fdp" -> PuredpToFdp(fn.v[1], x)
      [] fn.k = "approxdp_to_fdp" -> ApproxdpToFdp(fn.v[1], fn.v[2], x)
      [] fn.k = "single_rdp_to_fdp" -> SingleRdpToFdp(fn.v[1], fn.v[2], x, o)
      [] fn.k = "get_eps_ana_gaussian" -> Sym("get_eps_ana_gaussian", <<fn.v[1], x>>)
      [] fn.k = "fDP_gaussian" -> Sym("fDP_gaussian", <<fn.v[1], x>>)
      [] fn.k = "newrdp" -> ZipSum("RenyiDP", fn.ml, fn.cl, x, o)
      [] fn.k = "new_phi" -> ZipSum(fn.at, fn.ml, fn.cl, x, o)
      [] fn.k = "rdp_to_approxdp" ->
            RdpToApproxdp(Call(fn.a[1], Inf, o), Call(fn.a[1], o.x, o), x,
                          fn.v[1] = One, o)
      [] fn.k = "rdp_to_fdp" -> RdpToFdp(Call(fn.a[1], o.x, o), x, o)
      [] fn.k = "approxdp_func_to_fdp" ->
            ApproxdpFuncToFdp(Call(fn.a[1], o.d, o), o.d, x, o)
      [] fn.k = "numerical_inverse" ->
            NumericalInverse(Call(fn.a[1], o.x, o), fn.v, x, o)
      [] fn.k = "pwl" -> Pwl(fn.v, x)
      [] fn.k = "single_rdp_to_fdp_and_fdp_grad_log" ->
            SingleLogOneMinusFdp(fn.v[1], fn.v[2], x, o)
      [] fn.k = "rdp_to_fdp_and_fdp_grad_log" ->
            LogOneMinusFdpOnly(Call(fn.a[1], o.x, o), x, o)
      [] fn.k = "log_one_minus_fdp_gaussian" ->
            Sym("log_one_minus_fdp_gaussian", <<fn.v[1], x>>)
      [] fn.k = "log_neg_fdp_grad_gaussian" ->
            Sym("log_neg_fdp_grad_gaussian", <<fn.v[1], x>>)
      [] fn.k = "fdp_from_log" ->
            LET r == Call(fn.a[1], Sym("log", <<x>>), o)
            IN  IF IsErr(r) THEN r ELSE Sym("one_minus_exp", <<r>>)
      [] fn.k = "fdp_fdp_grad_to_approxdp" ->
            LET r == Call(fn.a[1], Sym("logx", <<x>>), o)
            IN  IF IsErr(r) THEN r ELSE Sym("fdp_fdp_grad_to_approxdp", <<r, x>>)
      [] fn.k = "amp_zero" -> Zero
      [] fn.k = "amp_approxDP" ->
            AmplifiedEps(fn.v[1], Call(heap[fn.m].approxDP,
                                        amplify_base_delta(fn.v[1], x), o))
      [] fn.k = "evalRDP" ->
            LET r == Call(fn.a[1], x, o)
            IN  IF IsErr(r) THEN r ELSE Sym("evalRDP", <<fn.v[1], fn.v[2], r>>)
      [] fn.k = "phi_gaussian" -> Sym("phi_gaussian", <<fn.v[1], x>>)
      [] fn.k = "phi_laplace" ->
            IF "b" \in DOMAIN dicts[heap[fn.m].params]
            THEN Sym("phi_laplace", <<dicts[heap[fn.m].params]["b"], x>>)
            ELSE Err("KeyError")
      [] fn.k = "phi_subsample_gaussian" ->
            IF {"sigma", "gamma"} \subseteq DOMAIN dicts[heap[fn.m].params]
            THEN Sym(fn.at, <<dicts[heap[fn.m].params]["sigma"],
                              dicts[heap[fn.m].params]["gamma"], fn.v[1], x>>)
            ELSE Err("KeyError")
      [] fn.k = "cdf_approx" ->
            LET r == Call(fn.a[1], One, o)
            IN  IF IsErr(r) THEN r ELSE Sym("cdf_approx", <<r, x>>)
      [] fn.k = "cdf_approx_attr" ->
            LET r == Call(heap[fn.m][fn.at], One, o)
            IN  IF IsErr(r) THEN r ELSE Sym("cdf_approx", <<r, x>>)
      [] fn.k = "cdf_to_approxdp" ->
            LET p == Call(fn.a[1], One, o)
                q == Call(fn.a[2], One, o)
            IN  IF IsErr(p) THEN p ELSE IF IsErr(q) THEN q
                ELSE Sym("cdf_to_approxdp", <<p, q, x>>)

-----------------------------------------------------------------------------
(* Mechanisms *)

\* Mechanism.__init__: no representation yet; the accessors answer with the
\* trivial guarantee (RDP and approx-DP +infinity, trade-off function 0).
BaseMechanism ==
    [approxDP |-> FnV("const_inf", <<>>),
     params |-> 0, cls |-> "Mechanism", name |-> "",
     delta0 |-> Inf, eps_pureDP |-> Inf,
     replace_one |-> FALSE, exactPhi |-> FALSE, upperPhi |-> FALSE,
     RenyiDP |-> FnV("const_inf", <<>>),
     fDP |-> FnV("const_zero", <<>>),
     fdp |-> NoFn,
     phi_p_lower |-> NoFn, phi_p_upper |-> NoFn,
     phi_q_lower |-> NoFn, phi_q_upper |-> NoFn,
     cdf |-> <<>>, direct |-> {}]

\* Whether the mechanism holds a representation of this kind.
Present(mech, kind) == mech[kind] # BaseMechanism[kind]

\* The representation of this kind after a derivation of it: one that is
\* already there is kept.
Derived(mech, kind, fn) == IF Present(mech, kind) THEN mech[kind] ELSE fn

Flag(b) == IF b THEN One ELSE Zero

\* Mechanism.propagate_updates(func, type_of_update, BBGHS_conversion): stores
\* the representation it is given and derives those the mechanism lacks.
PropagateUpdates(mech, kind, fns, val, bbghs) ==
    CASE kind = "pureDP" ->
            [mech EXCEPT !.eps_pureDP = val,
                         !.RenyiDP = Derived(mech, "RenyiDP", FnV("puredp_to_rdp", <<val>>)),
                         !.approxDP = Derived(mech, "approxDP", FnV("puredp_to_approxdp", <<val>>)),
                         !.fDP = Derived(mech, "fDP", FnV("puredp_to_fdp", <<val>>)),
                         !.direct = @ \cup {"eps_pureDP"}]
      [] kind = "RDP" ->
            [mech EXCEPT !.RenyiDP = fns[1],
                         !.approxDP = Derived(mech, "approxDP",
                              Fn("rdp_to_approxdp", 0, 0, 0, "", <<Flag(bbghs)>>, <<fns[1]>>)),
                         !.fDP = Derived(mech, "fDP",
                              Fn("rdp_to_fdp", 0, 0, 0, "", <<>>, <<fns[1]>>)),
                         !.direct = @ \cup {"RenyiDP"}]
      [] kind = "approxDP_func" ->
            [mech EXCEPT !.approxDP = fns[1],
                         !.fDP = Derived(mech, "fDP",
                              Fn("approxdp_func_to_fdp", 0, 0, 0, "", <<>>, <<fns[1]>>)),
                         !.direct = @ \cup {"approxDP"}]
      [] kind = "fDP_and_grad_log" ->
            [mech EXCEPT !.fDP = Fn("fdp_from_log", 0, 0, 0, "", <<>>, <<fns[1]>>),
                         !.approxDP = Derived(mech, "approxDP",
                              Fn("fdp_fdp_grad_to_approxdp", 0, 0, 0, "", <<One>>,
                                 <<fns[1], fns[2]>>)),
                         !.direct = @ \cup {"fDP"}]
      [] kind = "cdf_not_sym" ->
            [mech EXCEPT !.approxDP = Derived(mech, "approxDP",
                              Fn("cdf_to_approxdp", 0, 0, 0, "", <<>>, <<fns[1], fns[2]>>)),
                         !.direct = @ \cup {"cdf"}]
      [] kind = "cdf" ->
            [mech EXCEPT !.approxDP = Derived(mech, "approxDP",
                              Fn("cdf_to_approxdp", 0, 0, 0, "", <<>>, <<fns[1], fns[1]>>)),
                         !.direct = @ \cup {"cdf"}]

CdfApprox(phi) == Fn("cdf_approx", 0, 0, 0, "", <<>>, <<phi>>)

\* GaussianMechanism(sigma, phi_off=phi_off), the other switches at their
\* defaults (RDP and approx-DP on, fDP off).  d is the index of its params.
GaussianMechanism(sigma, phi_off, d) ==
    LET m0 == [BaseMechanism EXCEPT !.cls = "GaussianMechanism", !.name = "Gaussian",
                                    !.params = d, !.delta0 = Zero]
        phi == FnV("phi_gaussian", <<sigma>>)
        cdf == CdfApprox(phi)
        m1 == IF phi_off THEN m0
              ELSE PropagateUpdates(
                     [m0 EXCEPT !.exactPhi = TRUE,
                                !.phi_p_lower = phi, !.phi_q_lower = phi,
                                !.phi_p_upper = phi, !.phi_q_upper = phi,
                                !.cdf = <<cdf, cdf>>],
                     "cdf_not_sym", <<cdf, cdf>>, Zero, TRUE)
        m2 == PropagateUpdates(m1, "RDP", <<FnV("RDP_gaussian", <<sigma>>)>>, Zero, TRUE)
    IN  PropagateUpdates(m2, "approxDP_func", <<FnV("get_eps_ana_gaussian", <<sigma>>)>>,
                         Zero, TRUE)

\* GaussianMechanism(sigma, fdp_off=False): after the representations of
\* the default call the log-scale trade-off pair is propagated and the
\* attribute fdp is set.
GaussianMechanism_fdp(sigma, d) ==
    LET m3 == GaussianMechanism(sigma, TRUE, d)
        fun1 == FnV("log_one_minus_fdp_gaussian", <<sigma>>)
        fun2 == FnV("log_neg_fdp_grad_gaussian", <<sigma>>)
        m4 == PropagateUpdates(m3, "fDP_and_grad_log", <<fun1, fun2>>, Zero, TRUE)
    IN  [m4 EXCEPT !.fdp = FnV("fDP_gaussian", <<sigma>>)]

\* ExactGaussianMechanism(sigma)
ExactGaussianMechanism(sigma, d) ==
    LET m0 == [BaseMechanism EXCEPT !.cls = "ExactGaussianMechanism", !.name = "Gaussian",
                                    !.params = d, !.delta0 = Zero]
        m1 == PropagateUpdates(m0, "RDP", <<FnV("RDP_gaussian", <<sigma>>)>>, Zero, TRUE)
    IN  [m1 EXCEPT !.approxDP = FnV("get_eps_ana_gaussian", <<sigma>>),
                   !.fDP = FnV("fDP_gaussian", <<sigma>>)]

\* LaplaceMechanism(b, phi_off=phi_off); self is the index of the new object.
LaplaceMechanism(b, phi_off, self, d) ==
    LET m0 == [BaseMechanism EXCEPT !.cls = "LaplaceMechanism", !.name = "Laplace",
                                    !.params = d, !.delta0 = Zero]
        phi == Fn("phi_laplace", self, 0, 0, "", <<>>, <<>>)
        cdf == CdfApprox(phi)
        m1 == IF phi_off THEN m0
              ELSE PropagateUpdates(
                     [m0 EXCEPT !.exactPhi = TRUE,
                                !.phi_p_lower = phi, !.phi_q_lower = phi,
                                !.phi_p_upper = phi, !.phi_q_upper = phi,
                                !.cdf = <<cdf>>],
                     "cdf", <<cdf>>, Zero, TRUE)
    IN  PropagateUpdates(m1, "RDP", <<FnV("RDP_laplace", <<b>>)>>, Zero, TRUE)

\* PureDP_Mechanism(eps)
PureDP_Mechanism(eps, d) ==
    PropagateUpdates([BaseMechanism EXCEPT !.cls = "PureDP_Mechanism", !.name = "PureDP",
                                           !.params = d],
                     "pureDP", <<>>, eps, TRUE)

\* SubSampleGaussian_phi(sigma, gamma, lower_bound=lower, upper_bound=upper)
SubSampleGaussian_phi(lower, upper, self, d) ==
    LET m0 == [BaseMechanism EXCEPT !.cls = "SubSampleGaussian_phi",
                                    !.name = "Subsample_Gaussian_phi",
                                    !.params = d, !.delta0 = Zero, !.exactPhi = FALSE]
        mode == IF lower THEN "phi_min" ELSE IF upper THEN "phi_max" ELSE "quadrature"
        phi_p == Fn("phi_subsample_gaussian", self, 0, 0, "phi_subsample_gaussian_p",
                    <<Sym(mode, <<>>)>>, <<>>)
        phi_q == Fn("phi_subsample_gaussian", self, 0, 0, "phi_subsample_gaussian_q",
                    <<Sym(mode, <<>>)>>, <<>>)
        m1 == IF lower THEN [m0 EXCEPT !.phi_p_lower = phi_p, !.phi_q_lower = phi_q]
              ELSE IF upper THEN [m0 EXCEPT !.phi_p_upper = phi_p, !.phi_q_upper = phi_q]
              ELSE [m0 EXCEPT !.phi_p_lower = phi_p, !.phi_p_upper = phi_p,
                              !.phi_q_lower = phi_q]
        cdf_p == CdfApprox(phi_p)
        cdf_q == CdfApprox(phi_q)
    IN  PropagateUpdates([m1 EXCEPT !.cdf = <<cdf_p, cdf_q>>],
                         "cdf_not_sym", <<cdf_p, cdf_q>>, Zero, TRUE)

-----------------------------------------------------------------------------
(* Transformers *)

EmptyDict == [k \in {} |-> Zero]

\* {mech.name + ':' + k: v for k, v in mech.params.items()}
PrefixedParams(name, dct) ==
    [key \in {name \o ":" \o k : k \in DOMAIN dct} |->
        dct[CHOOSE k \in DOMAIN dct : name \o ":" \o k = key]]

RECURSIVE UpdateParamsUpTo(_, _)
UpdateParamsUpTo(ml, i) ==
    IF i = 0 THEN EmptyDict
    ELSE PrefixedParams(heap[ml[i]].name, dicts[heap[ml[i]].params])
         @@ UpdateParamsUpTo(ml, i - 1)

\* Composition.update_params / ComposeAFA.update_params: a later mechanism's
\* entry replaces an earlier one under the same key.
update_params(ml) == UpdateParamsUpTo(ml, Len(ml))

RECURSIVE JoinNames(_, _, _)
JoinNames(ml, cl, i) ==
    IF i = 0 THEN ""
    ELSE (IF i = 1 THEN "" ELSE JoinNames(ml, cl, i - 1) \o ", ")
         \o heap[ml[i]].name \o ": " \o ToString(cl[i])

\* Composition.update_name / ComposeAFA.update_name
update_name(ml, cl) ==
    "Compose:{" \o JoinNames(ml, cl, Min2(Len(ml), Len(cl))) \o "}"

RECURSIVE SumField_unweighted(_, _, _, _)
\* sum([mech.<field> for (mech, c) in zip(ml, cl)]): the sum were the
\* coefficients left out.
SumField_unweighted(field, ml, cl, i) ==
    IF i = 0 THEN Zero
    ELSE Add(SumField_unweighted(field, ml, cl, i - 1), heap[ml[i]][field])

RECURSIVE SumField(_, _, _, _)
\* sum([c * mech.<field> for (mech, c) in zip(ml, cl)]), the first i pairs.
SumField(field, ml, cl, i) ==
    IF i = 0 THEN Zero
    ELSE Add(SumField(field, ml, cl, i - 1), Mul(Rat(cl[i], 1), heap[ml[i]][field]))

MaxV(a, b) == IF Lt(a, b) THEN b ELSE a

\* mech.<field> of the first mechanism alone, were the maximum not taken.
MaxField_first(field, ml, i) == heap[ml[1]][field]

RECURSIVE MaxField(_, _, _)
\* max([mech.<field> for (mech, c) in zip(ml, cl)]), the first i pairs (i >= 1).
MaxField(field, ml, i) ==
    IF i = 1 THEN heap[ml[1]][field]
    ELSE MaxV(MaxField(field, ml, i - 1), heap[ml[i]][field])

\* The closure newrdp of Composition.compose over the list objects mlid, clid.
newrdp(mlid, clid) == Fn("newrdp", 0, mlid, clid, "", <<>>, <<>>)

\* Composition.compose(mechanism_list, coeff_list, BBGHS_conversion=bbghs): the
\* mechanism it returns; mlid, clid are the list objects, d the new params.
Composition_compose(ml, cl, mlid, clid, bbghs, d) ==
    LET n == Min2(Len(ml), Len(cl))
        m1 == PropagateUpdates(BaseMechanism, "RDP", <<newrdp(mlid, clid)>>, Zero, bbghs)
    IN  [m1 EXCEPT !.eps_pureDP = SumField("eps_pureDP", ml, cl, n),
                   !.delta0 = MaxField("delta0", ml, n),
                   !.name = update_name(ml, cl),
                   !.params = d]

\* The closures of ComposeAFA.compose were new_phi_p_* to sum the mechanisms'
\* phi_q_* and new_phi_q_* their phi_p_*.
new_phi_swapped(at, mlid, clid) ==
    Fn("new_phi", 0, mlid, clid,
       CASE at = "phi_p_lower" -> "phi_q_lower" [] at = "phi_q_lower" -> "phi_p_lower"
         [] at = "phi_p_upper" -> "phi_q_upper" [] at = "phi_q_upper" -> "phi_p_upper",
       <<>>, <<>>)

\* The closures new_phi_p_lower, ... of ComposeAFA.compose.
new_phi(at, mlid, clid) == Fn("new_phi", 0, mlid, clid, at, <<>>, <<>>)

\* The loop of ComposeAFA.compose over the mechanisms' flags.
AFA_upper_bound(ml) ==
    \E i \in 1..Len(ml) : heap[ml[i]].exactPhi = FALSE /\ heap[ml[i]].upperPhi = TRUE
AFA_lower_bound(ml) ==
    \E i \in 1..Len(ml) : heap[ml[i]].exactPhi = FALSE /\ heap[ml[i]].upperPhi # TRUE
AFA_exactPhi(ml) == \A i \in 1..Len(ml) : heap[ml[i]].exactPhi # FALSE

\* The assertion of ComposeAFA.compose.
AFA_accepts(ml) == ~(AFA_lower_bound(ml) /\ AFA_upper_bound(ml))

\* The second element of the CDF pair in the branch that is neither exact nor
\* a lower bound.
AFA_upper_cdf_q(self) == Fn("cdf_approx_attr", self, 0, 0, "phi_p_upper", <<>>, <<>>)

\* ComposeAFA.compose(mechanism_list, coeff_list) once its assertion holds;
\* self is the index of the new object.
ComposeAFA_compose(ml, cl, mlid, clid, self, d) ==
    LET m0 == [BaseMechanism EXCEPT !.exactPhi = AFA_exactPhi(ml)]
        attr(at) == Fn("cdf_approx_attr", self, 0, 0, at, <<>>, <<>>)
        m1 == IF m0.exactPhi
              THEN [m0 EXCEPT !.phi_p_lower = new_phi("phi_p_lower", mlid, clid),
                              !.phi_p_upper = new_phi("phi_p_upper", mlid, clid),
                              !.phi_q_lower = new_phi("phi_q_lower", mlid, clid),
                              !.phi_q_upper = new_phi("phi_q_upper", mlid, clid),
                              !.cdf = <<attr("phi_p_upper"), attr("phi_q_upper")>>]
              ELSE IF AFA_lower_bound(ml)
              THEN [m0 EXCEPT !.phi_p_lower = new_phi("phi_p_lower", mlid, clid),
                              !.phi_q_lower = new_phi("phi_q_lower", mlid, clid),
                              !.cdf = <<attr("phi_p_lower"), attr("phi_q_lower")>>]
              ELSE [m0 EXCEPT !.phi_p_upper = new_phi("phi_p_upper", mlid, clid),
                              !.phi_q_upper = new_phi("phi_q_upper", mlid, clid),
                              !.cdf = <<attr("phi_p_upper"), AFA_upper_cdf_q(self)>>]
        m2 == PropagateUpdates(m1, "cdf_not_sym", m1.cdf, Zero, TRUE)
    IN  [m2 EXCEPT !.name = update_name(ml, cl), !.params = d]

\* The isinstance assertion of ComposeGaussian.compose.
IsGaussianFamily(ml) ==
    \A i \in 1..Len(ml) : heap[ml[i]].cls \in {"GaussianMechanism", "ExactGaussianMechanism"}

RECURSIVE GaussianTmp(_, _, _)
\* tmp after the first i pairs of ComposeGaussian.compose's loop.
GaussianTmp(ml, cl, i) ==
    IF i = 0 THEN Zero
    ELSE LET t == GaussianTmp(ml, cl, i - 1)
             dct == dicts[heap[ml[i]].params]
         IN  IF IsErr(t) THEN t
             ELSE IF "sigma" \notin DOMAIN dct THEN Err("KeyError")
             ELSE Add(t, Mul(PowMinus2(dct["sigma"]), Rat(cl[i], 1)))

\* The sigma ComposeGaussian.compose constructs its result with.
GaussianSigma(ml, cl) ==
    Sqrt(Div(One, GaussianTmp(ml, cl, Min2(Len(ml), Len(cl)))))

\* ComposeGaussian.compose(mechanism_list, coeff_list) when it raises nothing.
ComposeGaussian_compose(ml, cl, d) ==
    [ExactGaussianMechanism(GaussianSigma(ml, cl), d) EXCEPT !.name = update_name(ml, cl)]

\* How ComposeGaussian.compose ends.
ComposeGaussian_outcome(ml, cl) ==
    IF ~IsGaussianFamily(ml) THEN "AssertionError"
    ELSE IF IsErr(GaussianSigma(ml, cl)) THEN GaussianSigma(ml, cl).f
    ELSE "ok"

\* AmplificationBySampling.__init__: self.name
SamplerName(poisson) == IF poisson THEN "PoissonSample" ELSE "Subsample"

\* str(prob) and str(num)
StrProb(prob) ==
    IF prob.d = 1 THEN ToString(prob.n)
    ELSE IF prob = Rat(1, 2) THEN "0.5"
    ELSE IF prob = Rat(1, 4) THEN "0.25"
    ELSE ToString(prob.n) \o "/" \o ToString(prob.d)

\* amplify without its assertions on the neighbouring relation.
amplify_accepts_any(poisson, mech) == TRUE

\* The assertions of amplify on the neighbouring relation.
amplify_accepts(poisson, mech) ==
    IF poisson THEN ~mech.replace_one ELSE mech.replace_one

\* new_approxDP of amplify without the branch for prob = 0.
amplify_new_approxDP_log(m, prob) == Fn("amp_approxDP", m, 0, 0, "", <<prob>>, <<>>)

\* new_approxDP of amplify; m is the input mechanism.
amplify_new_approxDP(m, prob) ==
    IF prob = Zero THEN FnV("amp_zero", <<>>)
    ELSE Fn("amp_approxDP", m, 0, 0, "", <<prob>>, <<>>)

\* acct.evalRDP after the accountant composed the subsampled mechanism.RenyiDP.
amplify_new_rdp(poisson, mech, prob, improved) ==
    Fn("evalRDP", 0, 0, 0, "",
       <<prob, Sym(IF poisson THEN (IF improved THEN "poisson" ELSE "poisson1")
                   ELSE (IF improved THEN "subsample_improved" ELSE "subsample"), <<>>)>>,
       <<mech.RenyiDP>>)

RECURSIVE amplify_num(_, _, _, _)
\* The while loop of amplify: the first num, from num on, whose key is not in
\* the params.
amplify_num(keys, name, prob, num) ==
    LET newname == IF num = 0 THEN name ELSE name \o ToString(num)
    IN  IF (newname \o "_" \o StrProb(prob)) \in keys
        THEN amplify_num(keys, name, prob, num + 1)
        ELSE num

amplify_newname(poisson, dct, prob) ==
    LET num == amplify_num(DOMAIN dct, SamplerName(poisson), prob, 0)
    IN  IF num = 0 THEN SamplerName(poisson) ELSE SamplerName(poisson) \o ToString(num)

\* The object newmech.params names after amplify's book keeping: the input's own.
amplify_params(mech) == mech.params

\* amplify(mechanism, prob, improved_bound_flag) once its assertion holds; m
\* is the input mechanism.
amplify(poisson, m, prob, improved) ==
    LET mech == heap[m]
        m0 == [BaseMechanism EXCEPT !.replace_one = ~poisson,
                                    !.approxDP = amplify_new_approxDP(m, prob)]
        m1 == PropagateUpdates(m0, "RDP", <<amplify_new_rdp(poisson, mech, prob, improved)>>,
                               Zero, TRUE)
        newname == amplify_newname(poisson, dicts[mech.params], prob)
    IN  [m1 EXCEPT !.name = newname \o ":" \o mech.name,
                   !.params = amplify_params(mech)]

-----------------------------------------------------------------------------
(* Calls *)

\* The last call: what was called (op), with what, how it ended (outcome: ok
\* or the exception raised), the object it returned (res) or the value (val),
\* and the heaps as they were when it was called.
CallRec(op, ml, cl, m, x, flag, outcome, res, val) ==
    [x |-> x, m |-> m, ml |-> ml, cl |-> cl, res |-> res, fn |-> NoFn,
     val |-> val, op |-> op, flag |-> flag, outcome |-> outcome,
     preheap |-> heap, predicts |-> dicts]

\* The last call when it evaluated the function object fn at x.
QueryRec(op, fn, x, flag, val) ==
    [x |-> x, m |-> 0, ml |-> <<>>, cl |-> <<>>, res |-> 0, fn |-> fn,
     val |-> val, op |-> op, flag |-> flag,
     outcome |-> IF IsErr(val) THEN val.f ELSE "ok",
     preheap |-> heap, predicts |-> dicts]

Init ==
    /\ heap = <<>>
    /\ dicts = <<>>
    /\ mlists = <<>>
    /\ clists = <<>>
    /\ last = [x |-> <<>>, m |-> 0, ml |-> <<>>, cl |-> <<>>, res |-> 0, fn |-> NoFn,
               val |-> Zero, op |-> "none", flag |-> FALSE, outcome |-> "ok",
               preheap |-> <<>>, predicts |-> <<>>]

Room == Len(heap) < MaxMech

\* A constructor call: the new object and its params dictionary.
Construct(op, mech, dct) ==
    /\ heap' = Append(heap, mech)
    /\ dicts' = Append(dicts, dct)
    /\ last' = CallRec(op, <<>>, <<>>, 0, <<>>, FALSE, "ok", Len(heap) + 1, Zero)
    /\ UNCHANGED <<mlists, clists>>

NewGaussian ==
    /\ Room
    /\ \E sigma \in Sigmas :
          Construct("GaussianMechanism",
                    GaussianMechanism(sigma, TRUE, Len(dicts) + 1), "sigma" :> sigma)

NewGaussianPhi ==
    /\ Room
    /\ \E sigma \in Sigmas :
          Construct("GaussianMechanism",
                    GaussianMechanism(sigma, FALSE, Len(dicts) + 1), "sigma" :> sigma)

NewGaussian_fdp ==
    /\ Room
    /\ \E sigma \in Sigmas :
          Construct("GaussianMechanism",
                    GaussianMechanism_fdp(sigma, Len(dicts) + 1), "sigma" :> sigma)

NewExactGaussian ==
    /\ Room
    /\ \E sigma \in Sigmas :
          Construct("ExactGaussianMechanism",
                    ExactGaussianMechanism(sigma, Len(dicts) + 1), "sigma" :> sigma)

NewLaplacePhi ==
    /\ Room
    /\ Construct("LaplaceMechanism",
                 LaplaceMechanism(One, FALSE, Len(heap) + 1, Len(dicts) + 1), "b" :> One)

NewLaplace ==
    /\ Room
    /\ Construct("LaplaceMechanism",
                 LaplaceMechanism(One, TRUE, Len(heap) + 1, Len(dicts) + 1), "b" :> One)

NewPureDP ==
    /\ Room
    /\ \E eps \in Epss :
          Construct("PureDP_Mechanism", PureDP_Mechanism(eps, Len(dicts) + 1), "eps" :> eps)

NewSubSampleGaussian_phi ==
    /\ Room
    /\ \E lower, upper \in BOOLEAN :
          Construct("SubSampleGaussian_phi",
                    SubSampleGaussian_phi(lower, upper, Len(heap) + 1, Len(dicts) + 1),
                    ("sigma" :> One) @@ ("gamma" :> Rat(1, 2)))

\* The caller declares that a mechanism's guarantee is for the replace-one
\* relation (no constructor does).
SetReplaceOne ==
    /\ \E m \in 1..Len(heap) :
          /\ ~heap[m].replace_one
          /\ heap' = [heap EXCEPT ![m].replace_one = TRUE]
          /\ last' = CallRec("replace_one", <<>>, <<>>, m, <<>>, FALSE, "ok", 0, Zero)
    /\ UNCHANGED <<dicts, mlists, clists>>

\* The lists a caller hands to compose: distinct mechanisms, one coefficient each.
MechLists ==
    UNION {{ml \in [1..n -> 1..Len(heap)] : \A i, j \in 1..n : ml[i] = ml[j] => i = j}
           : n \in 1..MaxList}
CoeffLists(n) == [1..n -> Coeffs]

\* Composition()(mechanism_list, coeff_list)
Compose ==
    /\ Room
    /\ \E ml \in MechLists : \E cl \in CoeffLists(Len(ml)) :
          /\ heap' = Append(heap, Composition_compose(ml, cl, Len(mlists) + 1,
                                                      Len(clists) + 1, TRUE, Len(dicts) + 1))
          /\ dicts' = Append(dicts, update_params(ml))
          /\ mlists' = Append(mlists, ml)
          /\ clists' = Append(clists, cl)
          /\ last' = CallRec("Composition", ml, cl, 0, <<>>, TRUE, "ok", Len(heap) + 1, Zero)

\* ComposeAFA()(mechanism_list, coeff_list)
ComposeAFA ==
    /\ Room
    /\ \E ml \in MechLists : \E cl \in CoeffLists(Len(ml)) :
          IF AFA_accepts(ml)
          THEN /\ heap' = Append(heap, ComposeAFA_compose(ml, cl, Len(mlists) + 1,
                                            Len(clists) + 1, Len(heap) + 1, Len(dicts) + 1))
               /\ dicts' = Append(dicts, update_params(ml))
               /\ mlists' = Append(mlists, ml)
               /\ clists' = Append(clists, cl)
               /\ last' = CallRec("ComposeAFA", ml, cl, 0, <<>>, FALSE, "ok",
                                  Len(heap) + 1, Zero)
          ELSE /\ last' = CallRec("ComposeAFA", ml, cl, 0, <<>>, FALSE, "AssertionError",
                                  0, Zero)
               /\ UNCHANGED <<heap, dicts, mlists, clists>>

\* ComposeGaussian()(mechanism_list, coeff_list)
ComposeGaussian ==
    /\ Room
    /\ \E ml \in MechLists : \E cl \in CoeffLists(Len(ml)) :
          IF ComposeGaussian_outcome(ml, cl) = "ok"
          THEN /\ heap' = Append(heap, ComposeGaussian_compose(ml, cl, Len(dicts) + 1))
               /\ dicts' = Append(dicts, update_params(ml))
               /\ last' = CallRec("ComposeGaussian", ml, cl, 0, <<>>, FALSE, "ok",
                                  Len(heap) + 1, Zero)
               /\ UNCHANGED <<mlists, clists>>
          ELSE /\ last' = CallRec("ComposeGaussian", ml, cl, 0, <<>>, FALSE,
                                  ComposeGaussian_outcome(ml, cl), 0, Zero)
               /\ UNCHANGED <<heap, dicts, mlists, clists>>

\* AmplificationBySampling(PoissonSampling=poisson)(mechanism, prob, improved)
Amplify ==
    /\ Room
    /\ \E poisson, improved \in BOOLEAN : \E m \in 1..Len(heap) : \E prob \in Probs :
          IF amplify_accepts(poisson, heap[m])
          THEN /\ heap' = Append(heap, amplify(poisson, m, prob, improved))
               /\ dicts' = [dicts EXCEPT ![amplify_params(heap[m])] =
                              (amplify_newname(poisson, dicts[heap[m].params], prob) :> prob)
                              @@ @]
               /\ last' = CallRec("amplify", <<>>, <<>>, m, prob, poisson, "ok",
                                  Len(heap) + 1, Zero)
               /\ UNCHANGED <<mlists, clists>>
          ELSE /\ last' = CallRec("amplify", <<>>, <<>>, m, prob, poisson, "AssertionError",
                                  0, Zero)
               /\ UNCHANGED <<heap, dicts, mlists, clists>>

Next == NewGaussian \/ NewPureDP \/ Compose
Spec == Init /\ [][Next]_vars

NextAFA == NewGaussianPhi \/ NewLaplacePhi \/ NewSubSampleGaussian_phi \/ ComposeAFA
SpecAFA == Init /\ [][NextAFA]_vars

NextGauss == NewGaussian \/ NewExactGaussian \/ NewLaplace \/ ComposeGaussian
SpecGauss == Init /\ [][NextGauss]_vars

\* After compose returned, the caller assigns coeff_list[i] = c on a list it
\* had passed in; last keeps the list pair as it was before.
SetCoeff ==
    /\ \E l \in 1..Len(clists) : \E i \in 1..Len(clists[l]) :
       \E c \in Coeffs \ {clists[l][i]} :
          /\ clists' = [clists EXCEPT ![l][i] = c]
          /\ last' = CallRec("setitem", mlists[l], clists[l], l, <<>>, TRUE, "ok", 0, Zero)
    /\ UNCHANGED <<heap, dicts, mlists>>

\* After compose returned, the caller assigns mechanism_list[i] = mech on a
\* list it had passed in, mech being a mechanism a constructor built that the
\* list does not hold.
SetMech ==
    /\ \E l \in 1..Len(mlists) : \E i \in 1..Len(mlists[l]) :
       \E m \in 1..Len(heap) :
          /\ heap[m].cls # "Mechanism"
          /\ \A k \in 1..Len(mlists[l]) : mlists[l][k] # m
          /\ mlists' = [mlists EXCEPT ![l][i] = m]
          /\ last' = CallRec("setitem", mlists[l], clists[l], l, <<>>, FALSE, "ok", 0, Zero)
    /\ UNCHANGED <<heap, dicts, clists>>

NextMutate == NewGaussian \/ NewPureDP \/ Compose \/ SetCoeff \/ SetMech
SpecMutate == Init /\ [][NextMutate]_vars

\* The caller declares a SubSampleGaussian_phi it built with upper_bound=True
\* an upper bound by assigning mech.upperPhi = True (no constructor does).
SetUpperPhi ==
    /\ \E m \in 1..Len(heap) :
          /\ heap[m].cls = "SubSampleGaussian_phi"
          /\ Present(heap[m], "phi_p_upper") /\ ~Present(heap[m], "phi_p_lower")
          /\ heap[m].upperPhi # TRUE
          /\ heap' = [heap EXCEPT ![m].upperPhi = TRUE]
          /\ last' = CallRec("upperPhi", <<>>, <<>>, m, <<>>, FALSE, "ok", 0, Zero)
    /\ UNCHANGED <<dicts, mlists, clists>>

NextUpper == NewGaussianPhi \/ NewSubSampleGaussian_phi \/ SetUpperPhi \/ ComposeAFA
SpecUpper == Init /\ [][NextUpper]_vars

\* mech.fDP(x) and mech.approxDP(delta) of a mechanism built so far.
Query_fDP ==
    /\ \E m \in 1..Len(heap) : \E x \in {Zero, Rat(1, 2), One} : \E o \in Oracles :
          last' = [QueryRec("fDP", heap[m].fDP, x, FALSE, Call(heap[m].fDP, x, o))
                      EXCEPT !.m = m]
    /\ UNCHANGED <<heap, dicts, mlists, clists>>
Query_approxDP ==
    /\ \E m \in 1..Len(heap) : \E delta \in {Zero, Rat(1, 2)} : \E o \in Oracles :
          last' = [QueryRec("approxDP", heap[m].approxDP, delta, FALSE,
                            Call(heap[m].approxDP, delta, o))
                      EXCEPT !.m = m]
    /\ UNCHANGED <<heap, dicts, mlists, clists>>

NextDirect ==
    \/ NewGaussian
    \/ NewGaussian_fdp
    \/ NewExactGaussian
    \/ Query_fDP
    \/ Query_approxDP
SpecDirect == Init /\ [][NextDirect]_vars

NextAmp == NewGaussian \/ SetReplaceOne \/ Amplify
SpecAmp == Init /\ [][NextAmp]_vars

\* Pure-DP epsilons and deltas a converter is queried with.
QEpss == {Zero, Rat(1, 1), Rat(2, 1)}
QDeltas == {Rat(-1, 2), Zero, Rat(1, 2), Rat(2, 1)}

\* rdp_to_approxdp(rdp, BBGHS_conversion=bbghs)(delta), for rdp the curve of a
\* pure-DP epsilon or of a mechanism on the heap.
Query_rdp_to_approxdp ==
    /\ \E fn \in {FnV("puredp_to_rdp", <<e>>) : e \in QEpss}
                 \cup {heap[m].RenyiDP : m \in 1..Len(heap)} :
       \E delta \in QDeltas : \E o \in Oracles : \E bbghs \in BOOLEAN :
          last' = QueryRec("rdp_to_approxdp", fn, delta, bbghs,
                           Call(Fn("rdp_to_approxdp", 0, 0, 0, "", <<Flag(bbghs)>>, <<fn>>),
                                delta, o))
    /\ UNCHANGED <<heap, dicts, mlists, clists>>

ConvRoom == Len(heap) < MaxConvMech
ConvNewPureDP == ConvRoom /\ NewPureDP
ConvCompose == ConvRoom /\ Compose

NextConv == ConvNewPureDP \/ ConvCompose \/ Query_rdp_to_approxdp
SpecConv == Init /\ [][NextConv]_vars

-----------------------------------------------------------------------------
(* Converter queries *)

\* False positive rates, orders and divergences a trade-off function is
\* queried and built with.
Fprs == {Rat(-1, 2), Zero, Rat(1, 2), One, Rat(2, 1)}
QAlphas == {Rat(1, 4), Rat(1, 2), One, Rat(2, 1)}
QRhos == {Rat(1, 10), One, Rat(5, 1)}
\* Curves handed to a converter: pure-DP and Gaussian RDP, Gaussian approx-DP.
QRdps ==
    {FnV("puredp_to_rdp", <<Zero>>), FnV("puredp_to_rdp", <<One>>),
     FnV("puredp_to_rdp", <<Rat(2, 1)>>), FnV("RDP_gaussian", <<One>>)}
QApproxdps == {FnV("get_eps_ana_gaussian", <<One>>), FnV("const_inf", <<>>)}

\* Evaluating a function object a converter built.
Query(op, fn, x, flag) ==
    /\ \E o \in Oracles : last' = QueryRec(op, fn, x, flag, Call(fn, x, o))
    /\ UNCHANGED <<heap, dicts, mlists, clists>>

\* puredp_to_fdp(eps)(fpr)
Query_puredp_to_fdp ==
    \E eps \in QEpss : \E fpr \in Fprs :
        Query("puredp_to_fdp", FnV("puredp_to_fdp", <<eps>>), fpr, FALSE)

\* approxdp_to_fdp(eps, delta)(fpr)
Query_approxdp_to_fdp ==
    \E eps \in QEpss \cup {Inf} : \E delta \in Deltas : \E fpr \in Fprs :
        Query("approxdp_to_fdp", FnV("approxdp_to_fdp", <<eps, delta>>), fpr, FALSE)

\* approxdp_func_to_fdp(func)(fpr)
Query_approxdp_func_to_fdp ==
    \E func \in QApproxdps : \E fpr \in Fprs :
        Query("approxdp_func_to_fdp",
              Fn("approxdp_func_to_fdp", 0, 0, 0, "", <<>>, <<func>>), fpr, FALSE)

\* single_rdp_to_fdp(alpha, rho)(x)
Query_single_rdp_to_fdp ==
    \E alpha \in QAlphas : \E rho \in QRhos : \E x \in Fprs :
        Query("single_rdp_to_fdp", FnV("single_rdp_to_fdp", <<alpha, rho>>), x, FALSE)

\* rdp_to_fdp(rdp)(x)
Query_rdp_to_fdp ==
    \E rdp \in QRdps : \E x \in Fprs :
        Query("rdp_to_fdp", Fn("rdp_to_fdp", 0, 0, 0, "", <<>>, <<rdp>>), x, FALSE)

\* Functions handed to numerical_inverse and to conjugate, the bounds it is
\* built with (none, the default [1, inf], and [0, 1] of
\* approxdp_from_its_inverse) and the values the inverse is queried at.
QFuncs ==
    {FnV("RDP_gaussian", <<One>>), FnV("puredp_to_rdp", <<One>>),
     FnV("single_rdp_to_fdp", <<One, One>>)}
QBounds == {<<>>, <<One, Inf>>, <<Zero, One>>}
QYs == {Rat(-1, 1), Zero, Rat(1, 2), One, Rat(2, 1), Inf}

\* numerical_inverse(f, bounds)(y)
Query_numerical_inverse ==
    \E f \in QFuncs : \E bounds \in QBounds : \E y \in QYs :
        Query("numerical_inverse",
              Fn("numerical_inverse", 0, 0, 0, "", bounds, <<f>>), y, FALSE)

\* What the bounded search over [0, 0.1] reports.
DeltaOracles == [success : BOOLEAN, x : {Rat(1, 1000), Rat(1, 20)}]

\* rdp_to_delta(rdp)(eps, naive); the call keeps what get_eps gave to err at
\* the delta the outer search stopped at.
Query_rdp_to_delta ==
    /\ \E fn \in QRdps :
       \E eps \in QEpss : \E o \in Oracles : \E r \in DeltaOracles :
       \E naive \in BOOLEAN :
          LET current_eps == GetEps(Call(fn, Inf, o), Call(fn, o.x, o), r.x, naive, o)
          IN  last' = QueryRec("rdp_to_delta",
                               Fn("rdp_to_delta", 0, 0, 0, "",
                                  <<Flag(naive), Flag(o.success), current_eps>>, <<fn>>),
                               eps, r.success,
                               RdpToDelta(DeltaErr(eps, current_eps), r))
    /\ UNCHANGED <<heap, dicts, mlists, clists>>

\* The logx = log(fpr) arguments: fpr 0, fpr 1/e, fpr 1 and an fpr above 1.
QLogxs == {NegInf, Rat(-1, 1), Zero, One}

\* single_rdp_to_fdp_and_fdp_grad_log(alpha, rho)[0](logx)
Query_single_rdp_to_fdp_and_fdp_grad_log ==
    \E alpha \in QAlphas : \E rho \in QRhos : \E logx \in QLogxs :
        Query("single_rdp_to_fdp_and_fdp_grad_log",
              FnV("single_rdp_to_fdp_and_fdp_grad_log", <<alpha, rho>>), logx, FALSE)

\* rdp_to_fdp_and_fdp_grad_log(rdp)[0](logx)
Query_rdp_to_fdp_and_fdp_grad_log ==
    \E rdp \in QRdps : \E logx \in QLogxs :
        Query("rdp_to_fdp_and_fdp_grad_log",
              Fn("rdp_to_fdp_and_fdp_grad_log", 0, 0, 0, "", <<>>, <<rdp>>), logx, FALSE)

NextQuery ==
    \/ Query_puredp_to_fdp
    \/ Query_numerical_inverse
    \/ Query_rdp_to_approxdp
    \/ Query_rdp_to_delta
    \/ Query_single_rdp_to_fdp_and_fdp_grad_log
    \/ Query_rdp_to_fdp_and_fdp_grad_log
    \/ Query_approxdp_to_fdp
    \/ Query_approxdp_func_to_fdp
    \/ Query_single_rdp_to_fdp
    \/ Query_rdp_to_fdp
SpecQuery == Init /\ [][NextQuery]_vars

\* Residuals of the two constraints at the point the search stopped at, in
\* units of 1e-5, and values of the two gradient formulas there.
QResiduals == {Zero, Rat(-1, 2), Rat(2, 1)}
QGrads == {Rat(-1, 1), Rat(2, 1)}

\* single_rdp_to_fdp_and_fdp_grad_log(alpha, rho)[1](logx)
Query_log_neg_partial_fdp ==
    /\ \E alpha \in QAlphas : \E rho \in {One} : \E logx \in QLogxs :
       \E success \in BOOLEAN : \E diff1, diff2 \in QResiduals : \E grad1, grad2 \in QGrads :
          last' = QueryRec("log_neg_partial_fdp",
                           Fn("log_neg_partial_fdp", 0, 0, 0, "", <<alpha, rho>>,
                              <<diff1, diff2, grad1, grad2>>),
                           logx, success,
                           LogNegPartialFdp(alpha, logx, success,
                                            <<diff1, diff2, grad1, grad2>>))
    /\ UNCHANGED <<heap, dicts, mlists, clists>>

NextGrad == Query_log_neg_partial_fdp
SpecGrad == Init /\ [][NextGrad]_vars

-----------------------------------------------------------------------------
(* Numerical utilities *)

\* The points a function that is linear between them takes its extrema at.
Grid == <<Zero, Rat(1, 2), One>>
\* Functions on [0,1] handed to conjugate, by their values on the grid:
\* 0, 1 - y, max(0, 1 - 2y), y and 1.
QPwls ==
    {FnV("pwl", <<Zero, Zero, Zero>>), FnV("pwl", <<One, Rat(1, 2), Zero>>),
     FnV("pwl", <<One, Zero, Zero>>), FnV("pwl", <<Zero, Rat(1, 2), One>>),
     FnV("pwl", <<One, One, One>>)}
QXs == {Rat(-1, 1), Zero, Rat(1, 2), One, Rat(2, 1)}
QTols == {Rat(1, 10), Rat(1, 100)}
\* What the bounded search reports: whether it succeeded, the grid point it
\* stopped next to, and by which part of tol its minimum exceeds the value
\* of the objective there.
ConjOracles == [success : BOOLEAN, i : 1..3, excess : {Zero, Rat(1, 2), One}]

\* The functions handed to conjugate run no search of their own.
NoSearch == CHOOSE o \in Oracles : TRUE
\* -y*x + f(y) at the i-th grid point.
ConjFun(f, x, i) == Add(Mul(Neg(Grid[i]), x), Call(f, Grid[i], NoSearch))

\* conjugate(f, tol)(x)
Query_conjugate ==
    \E f \in QPwls : \E x \in QXs : \E tol \in QTols : \E r \in ConjOracles :
        LET fun == Add(ConjFun(f, x, r.i), Mul(r.excess, tol))
        IN  /\ last' = QueryRec("conjugate",
                                Fn("conjugate", 0, 0, 0, "", <<tol, fun>>, <<f>>),
                                x, r.success, Conjugate(fun, tol, r.success))
            /\ UNCHANGED <<heap, dicts, mlists, clists>>

\* What the bounded search of find_logx reports: results.x (units of 1e-10,
\* from -5e-11 to -0.1) and results.fun, the residual normal_equation gives
\* there (units of 1e-4, from 0 to 1.0).
FindOracles ==
    [success : BOOLEAN,
     x : {Rat(-1, 2), Rat(-1, 1), Rat(-2, 1), Rat(-1000000000, 1)},
     fun : {Zero, Rat(1, 2), Rat(1, 1), Rat(2, 1), Rat(10000, 1)}]
QFindDeltas == {Rat(1, 1000), Rat(1, 2), Rat(9, 10)}

\* find_logx(delta) as approxdp(delta) of fdp_fdp_grad_to_approxdp calls it.
Query_find_logx ==
    \E delta \in QFindDeltas : \E r \in FindOracles :
        /\ last' = QueryRec("find_logx",
                            Fn("find_logx", 0, 0, 0, "", <<r.x, r.fun>>, <<>>),
                            delta, r.success,
                            FindLogx(Sym("bound1", <<delta>>), r))
        /\ UNCHANGED <<heap, dicts, mlists, clists>>

\* The CDF arrays: non-decreasing over 0, 1/10, 7/10 and 1, stepping up after
\* positions a <= b <= c; cdf_p is 0 on the lower half of the mesh.
StepSeq(a, b, c) ==
    [k \in 1..H |-> IF k <= a THEN Zero
                    ELSE IF k <= b THEN Rat(1, 10)
                    ELSE IF k <= c THEN Rat(7, 10)
                    ELSE One]
QCdfPs ==
    UNION {{StepSeq(a, b, c) : c \in b..H} : <<a, b>> \in {p \in (4..H) \X (4..H) : p[1] <= p[2]}}
QCdfQs == {StepSeq(H, H, H), StepSeq(2, 4, 6)}
QTargets == {Rat(1, 10), Rat(1, 2)}

\* cdf_to_approxdp_fft(cdf_p, cdf_q, l)(delta)
Query_cdf_to_approxdp_fft ==
    \E cdf_p \in QCdfPs : \E cdf_q \in QCdfQs : \E delta \in QTargets :
        /\ last' = QueryRec("cdf_to_approxdp_fft",
                            Fn("cdf_to_approxdp_fft", 0, 0, 0, "", <<cdf_p, cdf_q>>, <<>>),
                            delta, FALSE, CdfToApproxdpFft(cdf_p, cdf_q, delta))
        /\ UNCHANGED <<heap, dicts, mlists, clists>>

\* The eps arguments, in units of mesh_size: below, inside and above the
\* window [-l, l] = [-4, 4], whose mesh runs from -4 to 3.
QWindowEpss ==
    {Rat(-5, 1), Rat(-4, 1), Rat(-1, 2), Zero, Rat(5, 2), Rat(3, 1), Rat(4, 1), Rat(5, 1)}

\* cdf_to_approxdelta_fft(cdf_p, cdf_q, l)(eps)
Query_cdf_to_approxdelta_fft ==
    \E cdf_p \in {StepSeq(4, 5, 6), StepSeq(H, H, H)} : \E cdf_q \in QCdfQs :
    \E eps \in QWindowEpss : \E is_np \in BOOLEAN :
        /\ last' = QueryRec("cdf_to_approxdelta_fft",
                            Fn("cdf_to_approxdelta_fft", 0, 0, 0, "", <<cdf_p, cdf_q>>, <<>>),
                            eps, is_np, CdfToApproxdeltaFft(cdf_p, cdf_q, eps, is_np))
        /\ UNCHANGED <<heap, dicts, mlists, clists>>

NextNum ==
    \/ Query_conjugate
    \/ Query_cdf_to_approxdelta_fft
    \/ Query_cdf_to_approxdp_fft
    \/ Query_find_logx
SpecNum == Init /\ [][NextNum]_vars

-----------------------------------------------------------------------------
(* Properties *)

RECURSIVE WeightedSumUpTo(_, _, _)
WeightedSumUpTo(vals, cl, i) ==
    IF i = 0 THEN Zero
    ELSE Add(WeightedSumUpTo(vals, cl, i - 1), Mul(Rat(cl[i], 1), vals[i]))

\* c_1 * v_1 + ... + c_n * v_n
WeightedSum(vals, cl) == WeightedSumUpTo(vals, cl, Len(cl))

\* The last call returned a mechanism from this transformer.
Returned(op) == last.op = op /\ last.outcome = "ok"

\* C1: the mechanism Composition.compose returns has, at every order alpha, the
\* RDP value sum_i c_i * RDP_i(alpha) of the mechanisms and coefficients it was
\* given; composing one mechanism with coefficient 1 gives that mechanism's RDP
\* curve back.
C1_ComposedRdpIsWeightedSum ==
    Returned("Composition") =>
        \A alpha \in Orders : \A o \in Oracles :
            /\ Call(heap[last.res].RenyiDP, alpha, o)
                 = WeightedSum([i \in 1..Len(last.ml) |->
                                   Call(heap[last.ml[i]].RenyiDP, alpha, o)], last.cl)
            /\ last.cl = <<1>> =>
                 Call(heap[last.res].RenyiDP, alpha, o)
                   = Call(heap[last.ml[1]].RenyiDP, alpha, o)

\* A Gaussian with sigma = 1 taken 10 times and one with sigma = 2 taken once
\* were composed: at order 2 the RDP is 10 * 1 + 1/4.
C1_Witness ==
    /\ Returned("Composition")
    /\ last.cl = <<10, 1>>
    /\ \A o \in Oracles : Call(heap[last.res].RenyiDP, Rat(2, 1), o) = Rat(41, 4)

\* C2: the mechanism Composition.compose returns has eps_pureDP equal to
\* sum_i c_i * eps_i, so K copies of a pure-DP mechanism with epsilon e have
\* eps_pureDP K * e.
C2_ComposedPureDpIsWeightedSum ==
    Returned("Composition") =>
        /\ heap[last.res].eps_pureDP
             = WeightedSum([i \in 1..Len(last.ml) |-> heap[last.ml[i]].eps_pureDP], last.cl)
        /\ (Len(last.ml) = 1 /\ heap[last.ml[1]].cls = "PureDP_Mechanism") =>
             heap[last.res].eps_pureDP
               = Mul(Rat(last.cl[1], 1), dicts[heap[last.ml[1]].params]["eps"])

\* Ten copies of the pure-DP mechanism with epsilon 1 were composed: 10.
C2_Witness ==
    /\ Returned("Composition")
    /\ last.cl = <<10>>
    /\ heap[last.ml[1]].cls = "PureDP_Mechanism"
    /\ dicts[heap[last.ml[1]].params]["eps"] = One
    /\ heap[last.res].eps_pureDP = Rat(10, 1)

\* C3 (as the specification states it): a transformer call that returns gives
\* a new mechanism and leaves every mechanism that existed before the call, and
\* its params dictionary, as they were.
C3_InputsUnchanged ==
    (last.op \in {"Composition", "ComposeAFA", "ComposeGaussian", "amplify"}
       /\ last.outcome = "ok") =>
        /\ last.res = Len(last.preheap) + 1
        /\ \A m \in 1..Len(last.preheap) :
              /\ heap[m] = last.preheap[m]
              /\ dicts[heap[m].params] = last.predicts[last.preheap[m].params]

\* C4: amplify raises an assertion error, and returns no mechanism, when asked
\* for Poisson sampling of a replace-one mechanism or for subsampling of an
\* add/remove mechanism; a mechanism it returns has the replace_one flag of its
\* input.
C4_AmplifyNeighbouringRelation ==
    last.op = "amplify" =>
        /\ (last.flag /\ last.preheap[last.m].replace_one) =>
              (last.outcome = "AssertionError" /\ heap = last.preheap)
        /\ (~last.flag /\ ~last.preheap[last.m].replace_one) =>
              (last.outcome = "AssertionError" /\ heap = last.preheap)
        /\ last.outcome = "ok" =>
              /\ heap[last.res].replace_one = last.preheap[last.m].replace_one
              /\ heap[last.res].replace_one = ~last.flag

\* Poisson sampling of a replace-one mechanism was asked for and refused.
C4_Witness ==
    /\ last.op = "amplify"
    /\ last.flag
    /\ last.preheap[last.m].replace_one
    /\ last.outcome = "AssertionError"

\* C5: a mechanism amplify returns for prob = 0 has approxDP(delta) = 0 at every
\* delta: the curve amplify assigns is still the one queried after
\* propagate_updates.
C5_AmplifyProbZero ==
    (Returned("amplify") /\ last.x = Zero) =>
        \A delta \in Deltas : \A o \in Oracles :
            Call(heap[last.res].approxDP, delta, o) = Zero

\* A Gaussian was amplified with prob = 0, and its own approxDP is not 0.
C5_Witness ==
    /\ Returned("amplify")
    /\ last.x = Zero
    /\ \A o \in Oracles : Call(heap[last.m].approxDP, Rat(1, 2), o) # Zero
    /\ \A o \in Oracles : Call(heap[last.res].approxDP, Rat(1, 2), o) = Zero

\* A SubSampleGaussian_phi built with lower_bound=True, with upper_bound=True.
BuiltLowerBound(mech) ==
    /\ mech.cls = "SubSampleGaussian_phi"
    /\ Present(mech, "phi_p_lower") /\ ~Present(mech, "phi_p_upper")
BuiltUpperBound(mech) ==
    /\ mech.cls = "SubSampleGaussian_phi"
    /\ ~Present(mech, "phi_p_lower") /\ Present(mech, "phi_p_upper")
BuiltExact(mech) == mech.cls \in {"GaussianMechanism", "LaplaceMechanism"}

\* C6 (as the specification states it): ComposeAFA.compose raises an assertion
\* error for a list holding both a lower-bound and an upper-bound mechanism,
\* and returns a mechanism for exact mechanisms mixed with inexact ones of one
\* direction.
C6_RejectsMixedDirections ==
    last.op = "ComposeAFA" =>
        LET in(i) == last.preheap[last.ml[i]]
            lower == \E i \in 1..Len(last.ml) : BuiltLowerBound(in(i))
            upper == \E i \in 1..Len(last.ml) : BuiltUpperBound(in(i))
            plain == \A i \in 1..Len(last.ml) :
                        BuiltExact(in(i)) \/ BuiltLowerBound(in(i)) \/ BuiltUpperBound(in(i))
        IN  /\ (lower /\ upper) => last.outcome = "AssertionError"
            /\ (plain /\ ~(lower /\ upper)) => last.outcome = "ok"

\* C7: each phi-function variant the mechanism ComposeAFA.compose returns
\* holds has, at every t, the value sum_i c_i * (the same variant of mechanism
\* i)(t).
C7_ComposedPhiIsWeightedSum ==
    Returned("ComposeAFA") =>
        \A at \in {"phi_p_lower", "phi_p_upper", "phi_q_lower", "phi_q_upper"} :
            Present(heap[last.res], at) =>
                \A t \in Ts : \A o \in Oracles :
                    Call(heap[last.res][at], t, o)
                      = WeightedSum([i \in 1..Len(last.ml) |->
                                        Call(heap[last.ml[i]][at], t, o)], last.cl)

\* A lower-bound subsampled Gaussian, whose phi_p and phi_q differ, was taken
\* 10 times: phi_q_lower of the result is 10 times its phi_q_lower.
C7_Witness ==
    /\ Returned("ComposeAFA")
    /\ last.cl = <<10>>
    /\ BuiltLowerBound(heap[last.ml[1]])
    /\ \A o \in Oracles :
          LET v == Call(heap[last.ml[1]].phi_q_lower, One, o)
          IN  /\ ~IsErr(v)
              /\ v # Call(heap[last.ml[1]].phi_p_lower, One, o)
              /\ Call(heap[last.res].phi_q_lower, One, o) = Mul(Rat(10, 1), v)

\* C8 (as the specification states it): for every list of Gaussian-family
\* mechanisms ComposeGaussian.compose returns an exact Gaussian whose sigma has
\* 1/sigma^2 = sum_i c_i / sigma_i^2, with the RDP curve Composition.compose
\* gives for the same list.
C8_ComposeGaussianSigma ==
    (last.op = "ComposeGaussian"
       /\ \A i \in 1..Len(last.ml) :
             last.preheap[last.ml[i]].cls \in {"GaussianMechanism", "ExactGaussianMechanism"}) =>
        /\ last.outcome = "ok"
        /\ heap[last.res].cls = "ExactGaussianMechanism"
        /\ PowMinus2(heap[last.res].RenyiDP.v[1])
             = WeightedSum([i \in 1..Len(last.ml) |->
                               PowMinus2(heap[last.ml[i]].RenyiDP.v[1])], last.cl)
        /\ \A alpha \in Orders : \A o \in Oracles :
              Call(heap[last.res].RenyiDP, alpha, o)
                = WeightedSum([i \in 1..Len(last.ml) |->
                                  Call(heap[last.ml[i]].RenyiDP, alpha, o)], last.cl)

\* The mechanisms of a list are pure-DP mechanisms.
AllPureDP(ml) == \A i \in 1..Len(ml) : heap[ml[i]].cls = "PureDP_Mechanism"

\* C9: rdp_to_approxdp(rdp)(0) is rdp(infinity) whatever the order search would
\* report; rdp_to_approxdp(puredp_to_rdp(eps))(0) is eps for eps >= 0; and the
\* composition of pure-DP mechanisms has approxDP(0) = sum_i c_i * eps_i.
C9_DeltaZeroIsRdpAtInfinity ==
    /\ (last.op = "rdp_to_approxdp" /\ last.x = Zero) =>
          /\ \A o \in Oracles : last.val = Call(last.fn, Inf, o)
          /\ last.fn.k = "puredp_to_rdp" => last.val = last.fn.v[1]
    /\ (Returned("Composition") /\ AllPureDP(last.ml)) =>
          \A o \in Oracles :
              Call(heap[last.res].approxDP, Zero, o)
                = WeightedSum([i \in 1..Len(last.ml) |->
                                  dicts[heap[last.ml[i]].params]["eps"]], last.cl)

\* The curve of ten copies of the pure-DP mechanism with epsilon 1 was
\* converted and queried at delta = 0: 10.
C9_Witness ==
    /\ last.op = "rdp_to_approxdp"
    /\ last.x = Zero
    /\ last.val = Rat(10, 1)
    /\ \E r \in 1..Len(heap) :
          /\ last.fn = heap[r].RenyiDP
          /\ last.fn.k = "newrdp"
          /\ clists[last.fn.cl] = <<10>>
          /\ dicts[heap[mlists[last.fn.ml][1]].params]["eps"] = One
          /\ \A o \in Oracles : Call(heap[r].approxDP, Zero, o) = Rat(10, 1)

\* C10 (as the specification states it): the evaluator rdp_to_approxdp builds
\* raises for a delta outside [0,1] and returns no value.
C10_RejectsDeltaOutsideUnitInterval ==
    (last.op = "rdp_to_approxdp" /\ (Lt(last.x, Zero) \/ Lt(One, last.x))) =>
        last.outcome # "ok"

\* The last call evaluated a trade-off function a converter built.
FdpOps ==
    {"puredp_to_fdp", "approxdp_to_fdp", "approxdp_func_to_fdp",
     "single_rdp_to_fdp", "rdp_to_fdp"}

\* C11 (as the specification states it): every trade-off function a converter
\* builds raises on a false positive rate outside [0,1] and returns no false
\* negative rate for it.
C11_FdpRejectsFprOutsideUnitInterval ==
    (last.op \in FdpOps /\ ~InUnit(last.x)) => last.outcome # "ok"

\* C12: for alpha >= 1/2 and every rho, single_rdp_to_fdp(alpha, rho) is 1 at
\* fpr = 0 and 0 at fpr = 1 whatever the root search would report, and
\* rdp_to_fdp(rdp) has the same values there for every RDP curve.
C12_RdpFdpBoundaryValues ==
    (last.op \in {"single_rdp_to_fdp", "rdp_to_fdp"}
       /\ (last.op = "single_rdp_to_fdp" => Le(Rat(1, 2), last.fn.v[1]))) =>
        /\ last.x = Zero => (last.outcome = "ok" /\ last.val = One)
        /\ last.x = One => (last.outcome = "ok" /\ last.val = Zero)

\* single_rdp_to_fdp(1/2, 5) was evaluated at fpr = 0 and gave 1.
C12_Witness ==
    /\ last.op = "single_rdp_to_fdp"
    /\ last.fn.v = <<Rat(1, 2), Rat(5, 1)>>
    /\ last.x = Zero
    /\ last.val = One

\* The value the inverse was queried at lies outside the bounds it was built with.
OutOfBounds(bounds, y) == bounds # <<>> /\ (Lt(bounds[2], y) \/ Lt(y, bounds[1]))

\* C13: the inverse numerical_inverse builds returns None for a y outside its
\* bounds even when f would raise on every evaluation (f is not evaluated),
\* and inside the bounds, f not raising, it returns None when the optimizer
\* fails and the optimizer's x otherwise: it raises nothing of its own.
C13_NumericalInverseNeverRaises ==
    last.op = "numerical_inverse" =>
        LET f == last.fn.a[1]
            bounds == last.fn.v
        IN  /\ OutOfBounds(bounds, last.x) =>
                (last.outcome = "ok" /\ last.val = None)
            /\ (~OutOfBounds(bounds, last.x)
                  /\ \A o \in Oracles : ~IsErr(Call(f, o.x, o))) =>
                /\ last.outcome = "ok"
                /\ \E o \in Oracles :
                      last.val = (IF o.success THEN o.x ELSE None)
            /\ last.outcome # "ok" =>
                \E o \in Oracles : Call(f, o.x, o) = last.val

\* The inverse of a function that raises wherever the search evaluates it was
\* queried outside its bounds and gave None.
C13_Witness ==
    /\ last.op = "numerical_inverse"
    /\ last.fn.a[1] = FnV("single_rdp_to_fdp", <<One, One>>)
    /\ last.fn.v = <<One, Inf>>
    /\ last.x = Zero
    /\ last.val = None

\* The least of -y*x + f(y) over y in [0,1] for a function linear between
\* the grid points: the least over the grid.
RECURSIVE TrueMinUpTo(_, _, _)
TrueMinUpTo(f, x, i) ==
    LET here == ConjFun(f, x, i)
    IN  IF i = 1 THEN here
        ELSE LET rest == TrueMinUpTo(f, x, i - 1)
             IN  IF Lt(here, rest) THEN here ELSE rest
TrueMin(f, x) == TrueMinUpTo(f, x, 3)
\* f*(x), the greatest of x*y - f(y) over y in [0,1].
TrueConjugate(f, x) == Neg(TrueMin(f, x))
\* The minimum the search reported is at most tol above the true minimum.
WithinTol(f, x, fun, tol) == Le(fun, Add(TrueMin(f, x), tol))

\* C14 (as the specification states it): when the search succeeds with a
\* minimum at most tol above the true one, conjugate(f, tol)(x) is at least
\* the true conjugate f*(x).
C14_ConjugateIsUpperBound ==
    (last.op = "conjugate" /\ last.flag
       /\ WithinTol(last.fn.a[1], last.x, last.fn.v[2], last.fn.v[1])) =>
        Le(TrueConjugate(last.fn.a[1], last.x), last.val)

\* C15: a failed order search gives +infinity in rdp_to_approxdp (delta # 0)
\* and in get_eps of rdp_to_delta, a failed outer search of rdp_to_delta gives
\* 1, none of them raises, and rdp_to_delta(rdp)(eps) is in [0, 0.1] or is 1.
C15_OptimizerFailureIsSafe ==
    /\ last.op = "rdp_to_approxdp" =>
          \A o \in Oracles : (~o.success /\ last.x # Zero) =>
              Call(Fn("rdp_to_approxdp", 0, 0, 0, "", <<Flag(last.flag)>>, <<last.fn>>),
                   last.x, o) = Inf
    /\ last.op = "rdp_to_delta" =>
          /\ last.outcome = "ok"
          /\ last.fn.v[2] = Flag(FALSE) => last.fn.v[3] = Inf
          /\ ~last.flag => last.val = One
          /\ \/ last.val = One
             \/ Le(Zero, last.val) /\ Le(last.val, Rat(1, 10))

\* rdp_to_delta was evaluated with both the inner and the outer search failing
\* and gave 1.
C15_Witness ==
    /\ last.op = "rdp_to_delta"
    /\ last.fn.v[2] = Flag(FALSE)
    /\ last.fn.v[3] = Inf
    /\ ~last.flag
    /\ last.val = One

\* C16 (as the specification states it): find_logx(delta) raises RuntimeError
\* or returns the point the search stopped at with a residual there of at
\* most 1e-4.
C16_FindLogxWithinTolerance ==
    last.op = "find_logx" =>
        \/ last.outcome = "RuntimeError"
        \/ /\ last.outcome = "ok"
           /\ last.val = last.fn.v[1]
           /\ Le(AbsV(last.fn.v[2]), ResidualTol)

\* The delta computed at mesh point k.
ComputedDelta(cdf_p, cdf_q, k) == Add(One, Neg(FftResult(cdf_p, cdf_q, k)))

\* C17 (as the specification states it): cdf_to_approxdp_fft(...)(delta)
\* raises ValueError or returns a mesh value eps_list[k] whose computed delta
\* is at most the target.
C17_FftEpsMeetsTarget ==
    last.op = "cdf_to_approxdp_fft" =>
        \/ last.outcome = "ValueError"
        \/ /\ last.outcome = "ok"
           /\ \E k \in 0..(H - 1) :
                 /\ last.val = EpsList(k)
                 /\ Le(ComputedDelta(last.fn.v[1], last.fn.v[2], k), last.x)

\* eps lies in the window [-l, l].
InWindow(eps) == Le(Neg(WindowL), eps) /\ Le(eps, WindowL)

\* C18 (as the specification states it): cdf_to_approxdelta_fft(...)(eps)
\* raises ValueError for an eps on either side of the window [-l, l] and
\* returns a delta, raising nothing, for an eps inside it.
C18_WindowErrorOnBothSides ==
    last.op = "cdf_to_approxdelta_fft" =>
        /\ ~InWindow(last.x) => last.outcome = "ValueError"
        /\ InWindow(last.x) => last.outcome = "ok"

\* The last call evaluated an RDP-to-fDP conversion at an argument it accepts:
\* a false positive rate in [0,1] or its logarithm, an order of at least 1/2.
ValidRdpFdpCall ==
    /\ last.op \in {"single_rdp_to_fdp", "rdp_to_fdp",
                    "single_rdp_to_fdp_and_fdp_grad_log", "rdp_to_fdp_and_fdp_grad_log"}
    /\ last.op \in {"single_rdp_to_fdp", "rdp_to_fdp"} => InUnit(last.x)
    /\ last.op \in {"single_rdp_to_fdp_and_fdp_grad_log", "rdp_to_fdp_and_fdp_grad_log"} =>
          LeZero(last.x)
    /\ last.op \in {"single_rdp_to_fdp", "single_rdp_to_fdp_and_fdp_grad_log"} =>
          Le(Rat(1, 2), last.fn.v[1])

\* C19 (as the specification states it): whenever the optimizer reports
\* failure inside single_rdp_to_fdp, rdp_to_fdp,
\* single_rdp_to_fdp_and_fdp_grad_log or rdp_to_fdp_and_fdp_grad_log, the
\* evaluator returns a value and raises nothing.
C19_RdpFdpFailureIsSafe ==
    ValidRdpFdpCall =>
        \A o \in Oracles : ~o.success => ~IsErr(Call(last.fn, last.x, o))

\* C20 (as the specification states it): the fDP and approxDP accessors give
\* the closed-form Gaussian computations on an ExactGaussianMechanism, and
\* the fDP accessor does on a GaussianMechanism built with fdp_off=False.
C20_DirectRepresentationsAreReturned ==
    (last.op \in {"fDP", "approxDP"}
       /\ (heap[last.m].cls = "ExactGaussianMechanism"
             \/ (last.op = "fDP" /\ heap[last.m].cls = "GaussianMechanism"
                   /\ "fDP" \in heap[last.m].direct))) =>
        LET sigma == dicts[heap[last.m].params]["sigma"]
        IN  /\ last.op = "fDP" => last.val = Sym("fDP_gaussian", <<sigma, last.x>>)
            /\ last.op = "approxDP" =>
                  last.val = Sym("get_eps_ana_gaussian", <<sigma, last.x>>)


\* C21 (as the specification states it): after Composition.compose,
\* ComposeAFA.compose or ComposeGaussian.compose returned, the result's params
\* hold, for every input mechanism m and every parameter k of m, an entry
\* keyed m.name + ':' + k whose value is m.params[k].
C21_ParamsTrackEveryInput ==
    (last.op \in {"Composition", "ComposeAFA", "ComposeGaussian"} /\ last.outcome = "ok") =>
        \A i \in 1..Len(last.ml) :
            LET mech == last.preheap[last.ml[i]]
                dct == last.predicts[mech.params]
                params == dicts[heap[last.res].params]
            IN  \A k \in DOMAIN dct :
                    /\ (mech.name \o ":" \o k) \in DOMAIN params
                    /\ params[mech.name \o ":" \o k] = dct[k]


C23_AmplifyKeepsOneEntryPerStep ==
    (last.op = "amplify" /\ last.outcome = "ok") =>
        LET pre == last.predicts[last.preheap[last.m].params]
            post == dicts[heap[last.res].params]
        IN  /\ \A k \in DOMAIN pre : k \in DOMAIN post /\ post[k] = pre[k]
            /\ Cardinality(DOMAIN post) = Cardinality(DOMAIN pre) + 1


\* The gradients of the constraints whose residual at the found root is
\* within the tolerance, for the last call of log_neg_partial_fdp.
ActiveGrads ==
    {last.fn.a[i + 2] : i \in {j \in 1..2 : Le(AbsV(last.fn.a[j]), GradTol)}}

\* C24 (as the specification states it): for logx in (-inf, 0) the pair
\* log_neg_partial_fdp returns has the smallest of the active constraints'
\* gradients as its lower end and the largest as its upper end, and its lower
\* end never exceeds its upper end.
C24_GradientIntervalIsOrdered ==
    (last.op = "log_neg_partial_fdp" /\ last.outcome = "ok"
       /\ IsRat(last.x) /\ Lt(last.x, Zero)) =>
        LET grad_l == last.val.a[1]
            grad_h == last.val.a[2]
        IN  /\ ActiveGrads # {} =>
                  /\ grad_l \in ActiveGrads /\ \A g \in ActiveGrads : Le(grad_l, g)
                  /\ grad_h \in ActiveGrads /\ \A g \in ActiveGrads : Le(g, grad_h)
            /\ Le(grad_l, grad_h)


\* C25 (as the specification states it): when ComposeAFA.compose returns for a
\* list holding a SubSampleGaussian_phi built with upper_bound=True, that
\* mechanism carries the upper direction and the result holds the summed
\* phi_p_upper and phi_q_upper and the CDFs inverted from them; for one built
\* with lower_bound=True the result holds the summed phi_p_lower and
\* phi_q_lower and the CDFs inverted from them.
C25_BoundDirectionIsRead ==
    Returned("ComposeAFA") =>
        LET in(i) == last.preheap[last.ml[i]]
            res == heap[last.res]
            attr(at) == Fn("cdf_approx_attr", last.res, 0, 0, at, <<>>, <<>>)
        IN  /\ \A i \in 1..Len(last.ml) :
                  BuiltUpperBound(in(i)) =>
                      /\ in(i).upperPhi = TRUE
                      /\ Present(res, "phi_p_upper") /\ Present(res, "phi_q_upper")
                      /\ res.cdf[1] = attr("phi_p_upper")
            /\ \A i \in 1..Len(last.ml) :
                  BuiltLowerBound(in(i)) =>
                      /\ in(i).upperPhi # TRUE
                      /\ Present(res, "phi_p_lower") /\ Present(res, "phi_q_lower")
                      /\ res.cdf = <<attr("phi_p_lower"), attr("phi_q_lower")>>


\* C26 (as the specification states it): the CDF pair of the mechanism
\* ComposeAFA.compose returns, which is the pair its approxDP was derived
\* from, is (the CDF inverted from the composed phi_p, the CDF inverted from
\* the composed phi_q) of one bound variant.
C26_CdfPairIsPhiPThenPhiQ ==
    Returned("ComposeAFA") =>
        LET res == heap[last.res]
            attr(at) == Fn("cdf_approx_attr", last.res, 0, 0, at, <<>>, <<>>)
        IN  /\ res.cdf \in {<<attr("phi_p_lower"), attr("phi_q_lower")>>,
                            <<attr("phi_p_upper"), attr("phi_q_upper")>>}
            /\ res.approxDP.a = res.cdf


\* C27 (as the specification states it): every index the binary search of
\* cdf_to_approxdp_fft(...)(delta) reads cdf_p_list, cdf_q_list or eps_list
\* at lies in [0, H-1].
C27_FftIndicesInRange ==
    last.op = "cdf_to_approxdp_fft" =>
        \A idx \in FftReads(last.fn.v[1], last.fn.v[2], last.x, (H - 1) \div 2 - 1, H - 1) :
            idx \in 0..(H - 1)


\* The mechanisms Composition.compose built from the list pair l.
ComposedFrom(l) ==
    {r \in 1..Len(heap) : heap[r].RenyiDP.k = "newrdp" /\ heap[r].RenyiDP.ml = l}

\* C28 (as the specification states it): when the caller has modified a list
\* it had passed to Composition.compose, the RenyiDP of the mechanism compose
\* returned is at every order what it was with the lists as they were before,
\* and RenyiDP(inf) of a composition of pure-DP mechanisms is still the
\* eps_pureDP set at compose time.
C28_ComposedIsFixedAtReturn ==
    last.op = "setitem" =>
        \A r \in ComposedFrom(last.m) : \A o \in Oracles :
            /\ \A alpha \in Orders \cup {Inf} :
                  Call(heap[r].RenyiDP, alpha, o)
                    = SumAttr("RenyiDP", last.ml, last.cl, alpha, o, Len(last.ml))
            /\ (\A i \in 1..Len(last.ml) : heap[last.ml[i]].cls = "PureDP_Mechanism") =>
                  Call(heap[r].RenyiDP, Inf, o) = heap[r].eps_pureDP

\* At the return of Composition.compose RenyiDP(inf) of a composition of
\* pure-DP mechanisms is the eps_pureDP compose set.
ComposedInfIsPureDp ==
    Returned("Composition") =>
        ((\A i \in 1..Len(last.ml) : heap[last.ml[i]].cls = "PureDP_Mechanism") =>
            \A o \in Oracles : Call(heap[last.res].RenyiDP, Inf, o) = heap[last.res].eps_pureDP)


\* C29 (as the specification states it): the mechanism ComposeGaussian.compose
\* returns is an ExactGaussianMechanism whose params hold 'sigma' with the
\* aggregate noise scale, and ComposeGaussian.compose accepts it again: taken
\* alone with any coefficient c it composes to 1/sigma^2 = c/sigma_1^2.
C29_ComposedGaussianComposesAgain ==
    Returned("ComposeGaussian") =>
        LET res == heap[last.res]
            params == dicts[res.params]
        IN  /\ res.cls = "ExactGaussianMechanism"
            /\ "sigma" \in DOMAIN params
            /\ params["sigma"] = GaussianSigma(last.ml, last.cl)
            /\ \A c \in Coeffs :
                  /\ ComposeGaussian_outcome(<<last.res>>, <<c>>) = "ok"
                  /\ PowMinus2(GaussianSigma(<<last.res>>, <<c>>))
                       = Mul(Rat(c, 1), PowMinus2(GaussianSigma(last.ml, last.cl)))


\* C30 (as the specification states it): the approx-DP curve of a mechanism
\* amplify returned for a prob in (0,1] calls the base mechanism's approxDP,
\* for every delta in [0,1], with an argument in [0,1].
C30_BaseCurveQueriedInsideUnitInterval ==
    (Returned("amplify") /\ Lt(Zero, last.x) /\ Le(last.x, One)) =>
        LET new_approxDP == heap[last.res].approxDP
        IN  /\ new_approxDP = amplify_new_approxDP(last.m, last.x)
            /\ \A delta \in Deltas :
                  InUnit(delta) => InUnit(amplify_base_delta(new_approxDP.v[1], delta))

=============================================================================
